---------------------------- MODULE Spec2Model ----------------------------
(***************************************************************************)
(* CyberCheck: the anomaly-detection pipeline of                           *)
(* server/services/AnomalyDetectionService.js and the log parsers of       *)
(* server/config/database.js.                                              *)
(*                                                                         *)
(* One analysis invocation is modelled as a state machine: a record list   *)
(* is put together, analyzeAnomalies runs its statistical pass, selects    *)
(* the sample, awaits the external model, reconciles the reply and builds  *)
(* the result (or ends by throwing).                                       *)
(*                                                                         *)
(* Encoding of JavaScript values:                                          *)
(*   - a string field that is null/absent is NULL; the code only tests     *)
(*     such fields for truthiness;                                         *)
(*   - status_code 0 stands for every falsy status (null, undefined, 0,    *)
(*     NaN), which line 90 of the service treats alike;                    *)
(*   - a timestamp is [k |-> "null"], [k |-> "invalid"] (a Date object     *)
(*     holding NaN, which is truthy) or [k |-> "date", t |-> minutes],     *)
(*     minutes counted in UTC;                                             *)
(*   - a JavaScript Map is a sequence of <<key, count>> pairs in           *)
(*     insertion order, which is the order a Map iterates in;              *)
(*   - a confidence is a rational <<numerator, denominator>>.              *)
(***************************************************************************)
EXTENDS Integers, Sequences, FiniteSets, TLC

VARIABLES
    entries,    \* the record list given to analyzeAnomalies
    runs,       \* how many runs the list was put together from
    pc,         \* where the invocation stands
    stat,       \* statisticalAnomalies: {patterns, anomalies}
    sample,     \* sampleEntries
    aiCalls,    \* how often openai.chat.completions.create was called
    call,       \* how the awaited call ended
    ai,         \* aiAnalysis, what performAIAnalysis returned
    result,     \* what analyzeAnomalies returned or threw
    content,    \* the uploaded file's text, as its lines
    parsePc,    \* where parseLogFile stands
    loop,       \* the locals of parseLogFile's loop
    parseResult, \* what parseLogFile returned or threw
    other,      \* a second invocation of analyzeAnomalies, on another file
    prompt,     \* the user message of the request sent to the model
    route       \* POST /analyze/:fileId: the file's rows of log_entries, the
                \* caller of the running invocation, and the analyses done

parseVars == <<content, parsePc, loop, parseResult>>

vars == <<entries, runs, pc, stat, sample, aiCalls, call, ai, result,
          content, parsePc, loop, parseResult, other, prompt, route>>

NULL == "NULL"

(***************************************************************************)
(* Bounds of the model.                                                    *)
(***************************************************************************)
\* a record list is put together from at most MaxRuns runs of equal records
MaxRuns == 2

\* the lengths a run may have where the statistical pass and the sample
\* selection are examined: they reach 100-record lists in which one IP has
\* 10 or 11 records, a 20-record list with a status code seen once, and
\* lists with more than 30 records of one IP and more than 50 in all
RunLens == {1, 10, 11, 19, 89, 90}

\* the lengths a run may have where the whole invocation is examined
PipelineLens == {1, 11, 90}

\* a file is analysed at most MaxAnalyses times
MaxAnalyses == 2

\* an uploaded file has at most MaxLines lines
MaxLines == 4

\* where the format detection is examined, a file has at most MaxFormatLines
\* lines, drawn from the kinds FormatLines of LogLines: white space only, no
\* JSON, a complete entry, one without the optional members, and one with a
\* member named hasOwnProperty
MaxFormatLines == 6

FormatLines == {2, 3, 8, 10, 11}

\* where the request to the model is examined, the records come from at most
\* MaxVisitors clients, each with VisitLens records in a row
MaxVisitors == 12

VisitLens == {1, 2}

(***************************************************************************)
(* Records.                                                                *)
(***************************************************************************)
NoTime == [k |-> "null", t |-> 0]

InvalidDate == [k |-> "invalid", t |-> 0]

At(h, m) == [k |-> "date", t |-> 60 * h + m]

\* lineNumber is filled in when the record joins a list
Rec(ts, ip, status, ua) ==
    [lineNumber |-> 0, timestamp |-> ts, source_ip |-> ip, status_code |-> status,
     user_agent |-> ua, is_anomaly |-> FALSE]

\* the records a run is made of
Kinds ==
    << Rec(At(10, 5),   "1.1.1.1", 200, "Mozilla/5.0"),
       Rec(At(10, 59),  "2.2.2.2", 500, "curl/7.68.0"),
       Rec(At(11, 0),   NULL,      404, "CURL/7.68.0"),
       Rec(NoTime,      "1.1.1.1", 403, NULL),
       Rec(InvalidDate, "3.3.3.3", 0,   "sqlmap/1.0") >>


(***************************************************************************)
(* Strings.  TLC cannot look inside a string, so the user agents that occur*)
(* in Kinds are spelled out character by character.                        *)
(***************************************************************************)
Chars(s) ==
    CASE s = "Mozilla/5.0" -> <<"M", "o", "z", "i", "l", "l", "a", "/", "5", ".", "0">>
      [] s = "curl/7.68.0" -> <<"c", "u", "r", "l", "/", "7", ".", "6", "8", ".", "0">>
      [] s = "CURL/7.68.0" -> <<"C", "U", "R", "L", "/", "7", ".", "6", "8", ".", "0">>
      [] s = "sqlmap/1.0"  -> <<"s", "q", "l", "m", "a", "p", "/", "1", ".", "0">>

UpperCase == <<"A", "B", "C", "D", "E", "F", "G", "H", "I", "J", "K", "L", "M", "N", "O", "P", "Q", "R", "S", "T", "U", "V", "W", "X", "Y", "Z">>

LowerCase == <<"a", "b", "c", "d", "e", "f", "g", "h", "i", "j", "k", "l", "m", "n", "o", "p", "q", "r", "s", "t", "u", "v", "w", "x", "y", "z">>

\* the letter a case-insensitive regular expression compares
FoldCase(c) ==
    IF \E i \in 1..Len(UpperCase) : UpperCase[i] = c
    THEN LowerCase[CHOOSE i \in 1..Len(UpperCase) : UpperCase[i] = c]
    ELSE c

\* the test without the i flag
TestCaseSensitive(pat, text) ==
    \E off \in 0..(Len(text) - Len(pat)) :
        \A j \in 1..Len(pat) : text[off + j] = pat[j]

\* /pat/i.test(text): pat occurs somewhere in text, letter case ignored
TestIgnoreCase(pat, text) ==
    \E off \in 0..(Len(text) - Len(pat)) :
        \A j \in 1..Len(pat) : FoldCase(text[off + j]) = FoldCase(pat[j])

suspiciousPatterns ==
    << <<"b", "o", "t">>,
       <<"c", "r", "a", "w", "l", "e", "r">>,
       <<"s", "c", "a", "n", "n", "e", "r">>,
       <<"p", "y", "t", "h", "o", "n">>,
       <<"c", "u", "r", "l">>,
       <<"w", "g", "e", "t">>,
       <<"n", "i", "k", "t", "o">>,
       <<"s", "q", "l", "m", "a", "p">>,
       <<"n", "m", "a", "p">> >>

\* isSuspiciousUserAgent(userAgent)
isSuspiciousUserAgent(userAgent) ==
    IF userAgent = NULL THEN FALSE
    ELSE \E p \in 1..Len(suspiciousPatterns) :
            TestIgnoreCase(suspiciousPatterns[p], Chars(userAgent))

(***************************************************************************)
(* performStatisticalAnalysis.                                             *)
(***************************************************************************)
\* map.get(key) || 0
Get(table, key) ==
    IF \E i \in 1..Len(table) : table[i][1] = key
    THEN table[CHOOSE i \in 1..Len(table) : table[i][1] = key][2]
    ELSE 0

\* a table that puts a new key first
SetNewKeyFirst(table, key, value) ==
    IF \E i \in 1..Len(table) : table[i][1] = key
    THEN [i \in 1..Len(table) |->
            IF table[i][1] = key THEN <<key, value>> ELSE table[i]]
    ELSE <<<<key, value>>>> \o table

\* map.set(key, value): a new key goes to the end, a known key keeps its place
Set(table, key, value) ==
    IF \E i \in 1..Len(table) : table[i][1] = key
    THEN [i \in 1..Len(table) |->
            IF table[i][1] = key THEN <<key, value>> ELSE table[i]]
    ELSE Append(table, <<key, value>>)

\* const count = map.get(key) || 0; map.set(key, count + 1)
Bump(table, key) == Set(table, key, Get(table, key) + 1)

emptyPatterns ==
    [ipFrequency |-> <<>>, statusCodes |-> <<>>, userAgents |-> <<>>,
     timePatterns |-> <<>>]

\* new Date(entry.timestamp).getHours(), on a server whose clock is set to
\* UTC: the hour of the day, NaN for a date that is none
getHours(timestamp) ==
    IF timestamp.k = "date"
    THEN [k |-> "hour", h |-> (timestamp.t \div 60) % 24]
    ELSE [k |-> "NaN", h |-> 0]

\* the body of entries.forEach (lines 82-116) for one entry
CountEntry(patterns, entry) ==
    [ipFrequency |-> IF entry.source_ip # NULL
                     THEN Bump(patterns.ipFrequency, entry.source_ip)
                     ELSE patterns.ipFrequency,
     statusCodes |-> IF entry.status_code # 0
                     THEN Bump(patterns.statusCodes, entry.status_code)
                     ELSE patterns.statusCodes,
     userAgents  |-> IF entry.user_agent # NULL
                     THEN Bump(patterns.userAgents, entry.user_agent)
                     ELSE patterns.userAgents,
     timePatterns |-> IF entry.timestamp # NoTime
                      THEN Bump(patterns.timePatterns, getHours(entry.timestamp))
                      ELSE patterns.timePatterns]

\* TLC evaluates an operator's argument when it is first used: testing a
\* value makes TLC compute it there and then
Computed(value) == value = value

RECURSIVE CountEntries(_, _, _, _)
\* entries.forEach over list[lo..hi] in order, starting from the tables
\* patterns.  The range is walked in halves, the left half computed before
\* the right one starts, which keeps TLC's evaluation stack shallow.
CountEntries(patterns, list, lo, hi) ==
    IF lo > hi THEN patterns
    ELSE IF lo = hi THEN CountEntry(patterns, list[lo])
    ELSE LET mid == (lo + hi) \div 2
             left == CountEntries(patterns, list, lo, mid)
         IN  IF Computed(left) THEN CountEntries(left, list, mid + 1, hi) ELSE left

highFreqFloor == 10

\* the threshold test with >= for >
ReachesHighFreq(count, totalEntries) ==
    count >= highFreqFloor /\ count * 10 >= totalEntries

\* count > Math.max(10, totalEntries * 0.1).  The double nearest to 0.1 lies
\* above 1/10, so totalEntries * 0.1 rounds to a double >= totalEntries/10
\* and below totalEntries/10 + 1/10: for integers the test is the exact one.
ExceedsHighFreq(count, totalEntries) ==
    count > highFreqFloor /\ count * 10 > totalEntries

\* Math.min(0.9, count / totalEntries)
HighFreqConfidence(count, totalEntries) ==
    IF count * 10 > 9 * totalEntries THEN <<9, 10>> ELSE <<count, totalEntries>>

commonStatusCodes == <<200, 301, 302, 304, 404>>

\* commonStatusCodes.includes(status)
Includes(list, x) == \E i \in 1..Len(list) : list[i] = x

\* the status test with >= for >
ReachesUnusualStatus(status, count, totalEntries) ==
    ~Includes(commonStatusCodes, status) /\ count * 20 >= totalEntries

\* !commonStatusCodes.includes(status) && count > totalEntries * 0.05
\* (the double nearest to 0.05 lies above 1/20: as for ExceedsHighFreq)
IsUnusualStatus(status, count, totalEntries) ==
    ~Includes(commonStatusCodes, status) /\ count * 20 > totalEntries

\* Math.min(0.8, count / totalEntries * 2)
StatusConfidence(count, totalEntries) ==
    IF 2 * count * 10 > 8 * totalEntries THEN <<8, 10>> ELSE <<2 * count, totalEntries>>

\* lines 124-135: one anomaly per IP of the table over the threshold, in the
\* table's order (the percentage and reason texts, which only restate ip,
\* count and totalEntries, are left out)
HighFreqAnomalies(table, totalEntries) ==
    LET Over(e) == ExceedsHighFreq(e[2], totalEntries)
        hits == SelectSeq(table, Over)
    IN  [i \in 1..Len(hits) |->
            [type |-> "high_frequency_ip", ip |-> hits[i][1], count |-> hits[i][2],
             confidence |-> HighFreqConfidence(hits[i][2], totalEntries)]]

\* lines 138-149
StatusAnomalies(table, totalEntries) ==
    LET Odd(e) == IsUnusualStatus(e[1], e[2], totalEntries)
        hits == SelectSeq(table, Odd)
    IN  [i \in 1..Len(hits) |->
            [type |-> "unusual_status_code", status_code |-> hits[i][1],
             count |-> hits[i][2],
             confidence |-> StatusConfidence(hits[i][2], totalEntries)]]

suspiciousConfidence == <<85, 100>>

\* lines 152-162
UserAgentAnomalies(table) ==
    LET Bad(e) == isSuspiciousUserAgent(e[1])
        hits == SelectSeq(table, Bad)
    IN  [i \in 1..Len(hits) |->
            [type |-> "suspicious_user_agent", user_agent |-> hits[i][1],
             count |-> hits[i][2], confidence |-> suspiciousConfidence]]

performStatisticalAnalysis(list) ==
    LET patterns == CountEntries(emptyPatterns, list, 1, Len(list))
        totalEntries == Len(list)
    IN  [patterns  |-> patterns,
         anomalies |-> HighFreqAnomalies(patterns.ipFrequency, totalEntries)
                       \o StatusAnomalies(patterns.statusCodes, totalEntries)
                       \o UserAgentAnomalies(patterns.userAgents)]

(***************************************************************************)
(* selectSampleEntries.                                                    *)
(***************************************************************************)
Min(a, b) == IF a < b THEN a ELSE b

Max(a, b) == IF a > b THEN a ELSE b

\* array.slice(0, end), a negative end counting from the back
Slice0(s, end) ==
    LET e == IF end < 0 THEN Max(Len(s) + end, 0) ELSE Min(end, Len(s))
    IN  SubSeq(s, 1, e)

sampleLimit == 50

suspiciousLimit == 30

\* new Set(anomalies.filter(a => a.type === 'high_frequency_ip').map(a => a.ip))
SuspiciousIPs(anomalies) ==
    {anomalies[i].ip : i \in {j \in 1..Len(anomalies) :
                                anomalies[j].type = "high_frequency_ip"}}

\* a sample size without the cap of 50
SampleSizeUncapped(list) == Len(list)

\* line 239: Math.min(50, entries.length)
SampleSize(list) == Min(sampleLimit, Len(list))

\* the suspicious entries cut to the sample limit instead of 30
SelectedSuspiciousUpTo50(suspiciousEntries) == Slice0(suspiciousEntries, sampleLimit)

\* line 252: suspiciousEntries.slice(0, 30)
SelectedSuspicious(suspiciousEntries) == Slice0(suspiciousEntries, suspiciousLimit)

\* the remaining slots filled from all entries instead of the normal ones
SelectedFromAll(list, normalEntries, remainingSlots) == Slice0(list, remainingSlots)

\* line 254: normalEntries.slice(0, remainingSlots)
SelectedNormal(list, normalEntries, remainingSlots) == Slice0(normalEntries, remainingSlots)

selectSampleEntries(list, anomalies) ==
    LET sampleSize == SampleSize(list)
        suspiciousIPs == SuspiciousIPs(anomalies)
        IsSuspicious(entry) ==
            entry.source_ip # NULL /\ entry.source_ip \in suspiciousIPs
        IsNormal(entry) ==
            entry.source_ip = NULL \/ entry.source_ip \notin suspiciousIPs
        suspiciousEntries == SelectSeq(list, IsSuspicious)
        normalEntries == SelectSeq(list, IsNormal)
        selectedSuspicious == SelectedSuspicious(suspiciousEntries)
        remainingSlots == sampleSize - Len(selectedSuspicious)
        selectedNormal == SelectedNormal(list, normalEntries, remainingSlots)
    IN  selectedSuspicious \o selectedNormal

(***************************************************************************)
(* The external model's reply and parseAIResponse.                         *)
(*                                                                         *)
(* A reply text is a sequence of tokens: "{" and "}" are the braces the    *)
(* regular expression of line 320 looks for, "p" is a character of prose,  *)
(* and the other tokens are members of a JSON object (separators left      *)
(* out), each one character long for substring(0, 200):                    *)
(*   "S"  "summary": "..."            "C"  "confidence": 0.8               *)
(*   "A"  "anomalies": [ one anomaly ]  "An" "anomalies": null             *)
(*   "Au" "anomalies": [ an anomaly without confidence, one with 1.5 ]     *)
(*   "As" "anomalies": "no"           "Ai" "anomalies": 0                  *)
(*   "R"  "recommendations": [ "..." ]                                     *)
(***************************************************************************)
summaryLimit == 200

\* prose one character longer than the summary of line 327 keeps
longProse == [i \in 1..(summaryLimit + 1) |-> "p"]

Replies ==
    { <<"p", "p">>,
      longProse,
      <<"p", "{", "S", "A", "C", "R", "}", "p">>,
      <<"{", "S", "C", "}">>,
      <<"{", "A", "}">>,
      <<"{", "Au", "}">>,
      <<"{", "p", "}">>,
      <<"{", "S", "}", "p", "}">>,
      <<"p", "{", "S", "A", "}", "{", "C", "}">>,
      <<"}", "p", "{">>,
      <<"{", "S", "An", "C", "}">>,
      <<"{", "S", "As", "C", "}">>,
      <<"{", "S", "Ai", "}">> }

Members == {"S", "A", "An", "Au", "As", "Ai", "C", "R"}

Text(lit) == [head |-> <<>>, lit |-> lit]

\* a member of the parsed object: missing, null, or a value
Absent == [kind |-> "absent"]

JsonNull == [kind |-> "null"]

Present(v) == [kind |-> "value", v |-> v]

\* a member that is a string: v holds what a spread of it yields, one
\* one-character string after the other
JsonString(chars) == [kind |-> "string", v |-> [i \in 1..Len(chars) |-> [char |-> chars[i]]]]

JsonNumber == [kind |-> "number"]

inferredAnomaly ==
    [type |-> "port_scan", confidence |-> <<9, 10>>, severity |-> "high",
     affected_ips |-> <<"1.1.1.1">>]

\* what the model may send without being asked to: no confidence at all
unscoredAnomaly ==
    [type |-> "data_exfiltration", severity |-> "medium",
     affected_ips |-> <<"2.2.2.2">>]

\* a confidence outside [0, 1]
overscoredAnomaly ==
    [type |-> "bot_activity", confidence |-> <<15, 10>>, severity |-> "low",
     affected_ips |-> <<"3.3.3.3">>]

emptyObject ==
    [summary |-> Absent, anomalies |-> Absent, confidence |-> Absent,
     recommendations |-> Absent]

\* the object after one more member (a repeated member overrides)
WithMember(obj, tok) ==
    CASE tok = "S"  -> [obj EXCEPT !.summary = Present(Text("Threats found"))]
      [] tok = "A"  -> [obj EXCEPT !.anomalies = Present(<<inferredAnomaly>>)]
      [] tok = "An" -> [obj EXCEPT !.anomalies = JsonNull]
      [] tok = "Au" -> [obj EXCEPT !.anomalies =
                            Present(<<unscoredAnomaly, overscoredAnomaly>>)]
      [] tok = "As" -> [obj EXCEPT !.anomalies = JsonString(<<"n", "o">>)]
      [] tok = "Ai" -> [obj EXCEPT !.anomalies = JsonNumber]
      [] tok = "C"  -> [obj EXCEPT !.confidence = Present(<<8, 10>>)]
      [] tok = "R"  -> [obj EXCEPT !.recommendations = Present(<<"Block the scanning IP">>)]

RECURSIVE ObjectOf(_, _)
\* the object whose members are tokens 2..n of the block
ObjectOf(block, n) ==
    IF n <= 1 THEN emptyObject ELSE WithMember(ObjectOf(block, n - 1), block[n])

\* JSON.parse accepts the block: a brace, members only, a brace
IsJson(block) ==
    /\ Len(block) >= 2
    /\ block[1] = "{"
    /\ block[Len(block)] = "}"
    /\ \A i \in 2..(Len(block) - 1) : block[i] \in Members

\* response.match(/\{[\s\S]*\}/): from the first "{" to the last "}" after it
HasMatch(response) ==
    \E i \in 1..Len(response) :
        /\ response[i] = "{"
        /\ \E j \in (i + 1)..Len(response) : response[j] = "}"

JsonMatch(response) ==
    LET first == CHOOSE i \in 1..Len(response) :
                    /\ response[i] = "{"
                    /\ \A k \in 1..(i - 1) : response[k] # "{"
        last  == CHOOSE j \in 1..Len(response) :
                    /\ response[j] = "}"
                    /\ \A k \in (j + 1)..Len(response) : response[k] # "}"
    IN  SubSeq(response, first, last)

\* a summary that keeps the whole reply
Untruncated(response) == [head |-> response, lit |-> "..."]

\* response.substring(0, 200) + '...'
Truncated(response) ==
    [head |-> SubSeq(response, 1, Min(summaryLimit, Len(response))), lit |-> "..."]

parseAIResponse(response) ==
    IF HasMatch(response)
    THEN IF IsJson(JsonMatch(response))
         THEN ObjectOf(JsonMatch(response), Len(JsonMatch(response)) - 1)
         ELSE [summary |-> Present(Text("AI analysis completed but response parsing failed")),
               anomalies |-> Present(<<>>),
               confidence |-> Present(<<3, 10>>),
               recommendations |-> Present(<<"Manual review of logs recommended">>)]
    ELSE [summary |-> Present(Truncated(response)),
          anomalies |-> Present(<<>>),
          confidence |-> Present(<<5, 10>>),
          recommendations |-> Present(<<"Manual review recommended">>)]

(***************************************************************************)
(* performAIAnalysis.                                                      *)
(***************************************************************************)
\* a fallback that loses the statistical anomalies
StatisticalOnlyEmpty(statisticalAnomalies) ==
    [anomalies |-> <<>>,
     summary |-> Text("AI analysis unavailable, using statistical analysis only"),
     confidence |-> <<5, 10>>,
     recommendations |-> <<"Enable AI analysis for enhanced threat detection">>]

\* the catch block of lines 220-229
StatisticalOnly(statisticalAnomalies) ==
    [anomalies |-> statisticalAnomalies.anomalies,
     summary |-> Text("AI analysis unavailable, using statistical analysis only"),
     confidence |-> <<5, 10>>,
     recommendations |-> <<"Enable AI analysis for enhanced threat detection">>]

\* lines 181-188
NothingToSend(statisticalAnomalies) ==
    [anomalies |-> statisticalAnomalies.anomalies,
     summary |-> Text("No suspicious patterns detected by AI analysis"),
     confidence |-> <<3, 10>>,
     recommendations |-> <<"Continue monitoring for unusual patterns">>]

\* member || fallback (the values of WithMember are all truthy)
OrElse(member, fallback) == IF member.kind = "value" THEN member.v ELSE fallback

\* [...parsedResponse.anomalies] throws on undefined, on null and on a
\* number, none of which is iterable; a string is iterated by its characters
Spreadable(member) == member.kind \in {"value", "string"}

\* a reconciliation that drops a reply anomaly naming an IP already flagged
ReconcileDeduplicated(statisticalAnomalies, aiResponse) ==
    LET parsedResponse == parseAIResponse(aiResponse)
        flagged == SuspiciousIPs(statisticalAnomalies.anomalies)
        IsNew(a) == \A i \in 1..Len(a.affected_ips) : a.affected_ips[i] \notin flagged
    IN  IF ~Spreadable(parsedResponse.anomalies)
        THEN StatisticalOnly(statisticalAnomalies)
        ELSE [anomalies |-> statisticalAnomalies.anomalies
                                \o SelectSeq(parsedResponse.anomalies.v, IsNew),
              summary |-> OrElse(parsedResponse.summary, Text("AI analysis completed")),
              confidence |-> OrElse(parsedResponse.confidence, <<7, 10>>),
              recommendations |-> OrElse(parsedResponse.recommendations, <<>>)]

\* lines 208-229: the reply has arrived
Reconcile(statisticalAnomalies, aiResponse) ==
    LET parsedResponse == parseAIResponse(aiResponse)
    IN  IF ~Spreadable(parsedResponse.anomalies)
        THEN StatisticalOnly(statisticalAnomalies)
        ELSE [anomalies |-> statisticalAnomalies.anomalies \o parsedResponse.anomalies.v,
              summary |-> OrElse(parsedResponse.summary, Text("AI analysis completed")),
              confidence |-> OrElse(parsedResponse.confidence, <<7, 10>>),
              recommendations |-> OrElse(parsedResponse.recommendations, <<>>)]

(***************************************************************************)
(* generateTimeline.                                                       *)
(***************************************************************************)
\* new Date(entry.timestamp).toISOString() throws a RangeError on a Date that
\* holds no time value
TimelineThrows(list) ==
    \E i \in 1..Len(list) : list[i].timestamp.k = "invalid"

\* toISOString().slice(0, 13) + ':00:00Z': the UTC time cut to the clock hour
HourOf(timestamp) == timestamp.t \div 60

\* the bucket of an hour, or a fresh one
BucketOf(buckets, hour) ==
    IF \E i \in 1..Len(buckets) : buckets[i].timestamp = hour
    THEN buckets[CHOOSE i \in 1..Len(buckets) : buckets[i].timestamp = hour]
    ELSE [timestamp |-> hour, count |-> 0, anomalies |-> 0]

\* timeBuckets.set(hour, bucket)
PutBucket(buckets, bucket) ==
    IF \E i \in 1..Len(buckets) : buckets[i].timestamp = bucket.timestamp
    THEN [i \in 1..Len(buckets) |->
            IF buckets[i].timestamp = bucket.timestamp THEN bucket ELSE buckets[i]]
    ELSE Append(buckets, bucket)

\* lines 353-366 for one entry
AddToBucket(buckets, entry) ==
    IF entry.timestamp.k = "null" THEN buckets
    ELSE LET bucket == BucketOf(buckets, HourOf(entry.timestamp))
         IN  PutBucket(buckets,
                 [bucket EXCEPT !.count = @ + 1,
                                !.anomalies = IF entry.is_anomaly THEN @ + 1 ELSE @])

RECURSIVE Buckets(_, _, _, _)
\* entries.forEach over list[lo..hi] in order, starting from buckets
Buckets(buckets, list, lo, hi) ==
    IF lo > hi THEN buckets
    ELSE IF lo = hi THEN AddToBucket(buckets, list[lo])
    ELSE LET mid == (lo + hi) \div 2
             left == Buckets(buckets, list, lo, mid)
         IN  IF Computed(left) THEN Buckets(left, list, mid + 1, hi) ELSE left

RECURSIVE SortByHour(_)
\* sort((a, b) => new Date(a.timestamp) - new Date(b.timestamp)); the hours of
\* the buckets are distinct
SortByHour(buckets) ==
    IF buckets = <<>> THEN <<>>
    ELSE LET m == CHOOSE i \in 1..Len(buckets) :
                    \A j \in 1..Len(buckets) : buckets[i].timestamp <= buckets[j].timestamp
             rest == [i \in 1..(Len(buckets) - 1) |->
                        IF i < m THEN buckets[i] ELSE buckets[i + 1]]
         IN  <<buckets[m]>> \o SortByHour(rest)

\* defined when TimelineThrows(list) is false
generateTimeline(list) == SortByHour(Buckets(<<>>, list, 1, Len(list)))

(***************************************************************************)
(* The log parsers of server/config/database.js.                           *)
(*                                                                         *)
(* A line of the file is [pad, body]: pad says whether white space stands  *)
(* around the body, and the body is nothing at all, text that is not JSON, *)
(* or the JSON value the text denotes.  A JSON object is a record of its   *)
(* members; a text member the object lacks reads as the empty string,      *)
(* which is how the truthiness tests of the extractors see it.  The        *)
(* members that hold a status or a byte count are a number Num(n) or a     *)
(* string Str(characters), and Undefined when the object lacks them; the   *)
(* value NoPrimitive is an object with an own member toString that is no   *)
(* function, as {"toString": 1}, which no conversion to a string accepts.  *)
(***************************************************************************)
Num(n) == [t |-> "number", n |-> n]

Str(chars) == [t |-> "string", chars |-> chars]

Undefined == [t |-> "undefined"]

NoPrimitive == [t |-> "object"]

Nothing == [kind |-> "empty"]

NotJson == [kind |-> "text"]

Json(value) == [kind |-> "json", value |-> value]

Obj(members) == [type |-> "object", members |-> members]

Line(pad, body) == [pad |-> pad, body |-> body]

fullEntry ==
    [EdgeStartTimestamp |-> "2024-01-15T10:05:00Z", ClientIP |-> "1.1.1.1",
     ClientRequestHost |-> "example.com", ClientRequestURI |-> "/login",
     ClientRequestMethod |-> "GET", OriginResponseStatus |-> Num(200),
     UserAgent |-> "Mozilla/5.0"]

\* a required member is missing
noClientIP ==
    [EdgeStartTimestamp |-> "2024-01-15T10:59:00Z",
     ClientRequestHost |-> "example.com", ClientRequestURI |-> "/",
     OriginResponseStatus |-> Num(200)]

\* the required members and none of the three optional ones
noOptional ==
    [EdgeStartTimestamp |-> "2024-01-15T10:59:00Z", ClientIP |-> "2.2.2.2",
     ClientRequestHost |-> "example.com", EdgeResponseStatus |-> Num(500),
     UserAgent |-> "curl/7.68.0"]

\* every member of fullEntry and one more, named hasOwnProperty
shadowingEntry ==
    [EdgeStartTimestamp |-> "2024-01-15T10:05:00Z", ClientIP |-> "1.1.1.1",
     ClientRequestHost |-> "example.com", ClientRequestURI |-> "/login",
     ClientRequestMethod |-> "GET", OriginResponseStatus |-> Num(200),
     UserAgent |-> "Mozilla/5.0", hasOwnProperty |-> "x"]

\* the required members, one optional one, and a timestamp that is no date
minimalEntry ==
    [EdgeStartTimestamp |-> "yesterday", ClientIP |-> "3.3.3.3",
     ClientRequestHost |-> "example.com", OriginResponseStatus |-> Num(404)]

\* the origin status is a string that is no number
wordStatus ==
    [EdgeStartTimestamp |-> "2024-01-15T10:05:00Z", ClientIP |-> "1.1.1.1",
     ClientRequestHost |-> "example.com", ClientRequestURI |-> "/",
     OriginResponseStatus |-> Str(<<"a", "b", "c">>),
     EdgeResponseStatus |-> Num(200),
     EdgeResponseBytes |-> Str(<<"1", "0", "2", "4">>)]

\* no origin status; the byte count of the origin only
edgeOnly ==
    [EdgeStartTimestamp |-> "2024-01-15T10:59:00Z", ClientIP |-> "2.2.2.2",
     ClientRequestHost |-> "example.com", ClientRequestMethod |-> "GET",
     EdgeResponseStatus |-> Str(<<"5", "0", "3">>),
     OriginResponseBytes |-> Num(77)]

\* an origin status of 0, as for a request the origin never saw
zeroOrigin ==
    [EdgeStartTimestamp |-> "2024-01-15T10:59:00Z", ClientIP |-> "2.2.2.2",
     ClientRequestHost |-> "example.com", ClientRequestURI |-> "/",
     OriginResponseStatus |-> Num(0), EdgeResponseStatus |-> Num(304),
     EdgeResponseBytes |-> Str(<<"1", "2", "k", "B">>)]

\* neither a status nor a byte count
noStatus ==
    [EdgeStartTimestamp |-> "2024-01-15T10:05:00Z", ClientIP |-> "1.1.1.1",
     ClientRequestHost |-> "example.com", ClientRequestURI |-> "/"]

\* a complete entry whose origin status is the object {"toString": 1}
objectStatus ==
    [EdgeStartTimestamp |-> "2024-01-15T10:05:00Z", ClientIP |-> "1.1.1.1",
     ClientRequestHost |-> "example.com", ClientRequestURI |-> "/login",
     ClientRequestMethod |-> "GET", OriginResponseStatus |-> NoPrimitive,
     UserAgent |-> "Mozilla/5.0"]

\* the lines a file is written from
LogLines ==
    << Line(FALSE, Nothing),
       Line(TRUE, Nothing),
       Line(FALSE, NotJson),
       Line(FALSE, Json([type |-> "null"])),
       Line(FALSE, Json([type |-> "number"])),
       Line(FALSE, Json([type |-> "string"])),
       Line(FALSE, Json([type |-> "array"])),
       Line(FALSE, Json(Obj(fullEntry))),
       Line(FALSE, Json(Obj(noClientIP))),
       Line(FALSE, Json(Obj(noOptional))),
       Line(FALSE, Json(Obj(shadowingEntry))),
       Line(TRUE, Json(Obj(minimalEntry))),
       Line(FALSE, Json(Obj(wordStatus))),
       Line(FALSE, Json(Obj(edgeOnly))),
       Line(FALSE, Json(Obj(zeroOrigin))),
       Line(FALSE, Json(Obj(noStatus))),
       Line(FALSE, Json(Obj(objectStatus))) >>

\* the kinds of line of the files whose parsing is examined
ParseLines == 1..12 \cup {17}

\* the kinds of line of the files whose records' fields are examined: the
\* lines parseLine makes a record of
FieldLines == {8, 12, 13, 14, 15, 16}

\* line.trim()
Trim(line) == [line EXCEPT !.pad = FALSE]

\* !line.trim(): the trimmed line is the empty string
IsBlank(line) == Trim(line).body = Nothing

\* content.split('\n'): the text of no characters splits into one empty line
Split(text) == IF Len(text) = 0 THEN <<Line(FALSE, Nothing)>> ELSE text

\* JSON.parse, which skips white space around the value: the value, or a
\* SyntaxError
JsonParse(line) ==
    IF line.body.kind = "json"
    THEN [kind |-> "value", value |-> line.body.value]
    ELSE [kind |-> "throw", error |-> "SyntaxError"]

\* entry.hasOwnProperty(field): a TypeError on null, and on an object whose
\* own member hasOwnProperty hides the method; false on the boxed number and
\* string and on the array
HasOwnPropertyThrows(entry) ==
    \/ entry.type = "null"
    \/ entry.type = "object" /\ "hasOwnProperty" \in DOMAIN entry.members

HasOwnProperty(entry, field) ==
    entry.type = "object" /\ field \in DOMAIN entry.members

requiredFields == <<"EdgeStartTimestamp", "ClientIP", "ClientRequestHost">>

optionalFields == <<"ClientRequestURI", "ClientRequestMethod", "OriginResponseStatus">>

\* an entry check that asks for the required members only
isCloudflareOneEntryRequiredOnly(entry) ==
    IF HasOwnPropertyThrows(entry) THEN "throw"
    ELSE IF \A i \in 1..Len(requiredFields) : HasOwnProperty(entry, requiredFields[i])
         THEN "true" ELSE "false"

\* "true", "false", or "throw" when the call ends in a TypeError
isCloudflareOneEntry(entry) ==
    IF HasOwnPropertyThrows(entry) THEN "throw"
    ELSE LET hasRequired == \A i \in 1..Len(requiredFields) :
                                HasOwnProperty(entry, requiredFields[i])
             hasOptional == \E i \in 1..Len(optionalFields) :
                                HasOwnProperty(entry, optionalFields[i])
         IN  IF hasRequired /\ hasOptional THEN "true" ELSE "false"

\* entry[name], or what a missing member reads as
Member(entry, name, missing) ==
    IF name \in DOMAIN entry.members THEN entry.members[name] ELSE missing

\* new Date(text) for the texts of the entries above
DateOf(text) ==
    CASE text = "2024-01-15T10:05:00Z" -> At(10, 5)
      [] text = "2024-01-15T10:59:00Z" -> At(10, 59)
      [] OTHER -> InvalidDate

\* lines 514-525: the Date is returned unchecked
extractTimestamp(entry) ==
    LET timestamp == Member(entry, "EdgeStartTimestamp", "")
    IN  IF timestamp # "" THEN DateOf(timestamp) ELSE NoTime

\* value || null
OrNull(value) == IF value = "" THEN NULL ELSE value

extractSourceIP(entry) == OrNull(Member(entry, "ClientIP", ""))

extractUserAgent(entry) == OrNull(Member(entry, "UserAgent", ""))

extractMethod(entry) == OrNull(Member(entry, "ClientRequestMethod", ""))

\* the truthiness of a status or byte count
Truthy(v) ==
    CASE v.t = "number" -> v.n # 0
      [] v.t = "string" -> Len(v.chars) > 0
      [] v.t = "object" -> TRUE
      [] OTHER -> FALSE

Digits == <<"0", "1", "2", "3", "4", "5", "6", "7", "8", "9">>

IsDigit(c) == \E d \in 1..Len(Digits) : Digits[d] = c

DigitValue(c) == (CHOOSE d \in 1..Len(Digits) : Digits[d] = c) - 1

\* how many characters at the start of a string are digits
DigitPrefix(chars) ==
    CHOOSE n \in 0..Len(chars) :
        /\ \A m \in 1..n : IsDigit(chars[m])
        /\ n < Len(chars) => ~IsDigit(chars[n + 1])

RECURSIVE ValueOfDigits(_, _)
ValueOfDigits(chars, n) ==
    IF n = 0 THEN 0 ELSE 10 * ValueOfDigits(chars, n - 1) + DigitValue(chars[n])

\* what an extractor of a number returns
NullValue == [t |-> "null"]

NaN == [t |-> "nan"]

Integer(n) == [t |-> "int", n |-> n]

\* a TypeError out of an extractor
ExtractorThrew == [t |-> "throw"]

\* parseInt(value, 10) of an integer, and of a string without sign or white
\* space: the number its leading digits write, NaN when it starts with none;
\* a value that has no string conversion ends it in a TypeError
ParseInt10(v) ==
    IF v.t = "number" THEN Integer(v.n)
    ELSE IF v.t = "object" THEN ExtractorThrew
    ELSE IF DigitPrefix(v.chars) = 0 THEN NaN
    ELSE Integer(ValueOfDigits(v.chars, DigitPrefix(v.chars)))

\* lines 576-579
extractStatusCode(entry) ==
    LET origin == Member(entry, "OriginResponseStatus", Undefined)
        status == IF Truthy(origin) THEN origin
                  ELSE Member(entry, "EdgeResponseStatus", Undefined)
    IN  IF Truthy(status) THEN ParseInt10(status) ELSE NullValue

\* lines 586-589
extractBytesSent(entry) ==
    LET edge == Member(entry, "EdgeResponseBytes", Undefined)
        bytes == IF Truthy(edge) THEN edge
                 ELSE Member(entry, "OriginResponseBytes", Undefined)
    IN  IF Truthy(bytes) THEN ParseInt10(bytes) ELSE NullValue

NoRecord == [kind |-> "null"]

Thrown(error) == [kind |-> "throw", error |-> error]

\* lines 476-501: the body of parseLine's try
ParseLineTry(line, lineNumber) ==
    LET trimmedLine == Trim(line)
        parsed == JsonParse(trimmedLine)
    IN  IF trimmedLine.body = Nothing THEN NoRecord
        ELSE IF parsed.kind = "throw" THEN Thrown(parsed.error)
        ELSE IF isCloudflareOneEntry(parsed.value) = "throw" THEN Thrown("TypeError")
        ELSE IF isCloudflareOneEntry(parsed.value) = "false" THEN NoRecord
        ELSE IF \/ extractStatusCode(parsed.value).t = "throw"
                \/ extractBytesSent(parsed.value).t = "throw"
             THEN Thrown("TypeError")
        ELSE [kind |-> "record",
              lineNumber |-> lineNumber,
              timestamp |-> extractTimestamp(parsed.value),
              source_ip |-> extractSourceIP(parsed.value),
              user_agent |-> extractUserAgent(parsed.value),
              status_code |-> extractStatusCode(parsed.value),
              bytes_sent |-> extractBytesSent(parsed.value),
              method |-> extractMethod(parsed.value),
              raw_data |-> trimmedLine,
              original_entry |-> parsed.value]

\* parseLine without its catch
parseLineUncaught(line, lineNumber) == ParseLineTry(line, lineNumber)

\* lines 475-507: whatever the try throws is caught and null is returned
parseLine(line, lineNumber) ==
    IF ParseLineTry(line, lineNumber).kind = "throw"
    THEN NoRecord
    ELSE ParseLineTry(line, lineNumber)

formatSample == 5

\* a validation that samples every non-empty line of the file
validateFormatWholeFile(text) ==
    LET NonEmpty(line) == ~IsBlank(line)
        lines == SelectSeq(Split(text), NonEmpty)
        sampleSize == Len(lines)
        IsValid(line) ==
            /\ JsonParse(line).kind = "value"
            /\ isCloudflareOneEntry(JsonParse(line).value) = "true"
        validCount == Cardinality({i \in 1..sampleSize : IsValid(lines[i])})
    IN  IF Len(lines) = 0 THEN FALSE
        ELSE 5 * validCount >= 3 * sampleSize

\* a validation that counts every sampled line that is JSON
validateFormatAnyJson(text) ==
    LET NonEmpty(line) == ~IsBlank(line)
        lines == SelectSeq(Split(text), NonEmpty)
        sampleSize == Min(formatSample, Len(lines))
        IsValid(line) == JsonParse(line).kind = "value"
        validCount == Cardinality({i \in 1..sampleSize : IsValid(lines[i])})
    IN  IF Len(lines) = 0 THEN FALSE
        ELSE 5 * validCount >= 3 * sampleSize

\* lines 423-448; validCount / sampleSize >= 0.6 with sampleSize <= 5 is
\* 5 * validCount >= 3 * sampleSize (3 / 5 is the double 0.6)
validateFormat(text) ==
    LET NonEmpty(line) == ~IsBlank(line)
        lines == SelectSeq(Split(text), NonEmpty)
        sampleSize == Min(formatSample, Len(lines))
        IsValid(line) ==
            /\ JsonParse(line).kind = "value"
            /\ isCloudflareOneEntry(JsonParse(line).value) = "true"
        validCount == Cardinality({i \in 1..sampleSize : IsValid(lines[i])})
    IN  IF Len(lines) = 0 THEN FALSE
        ELSE 5 * validCount >= 3 * sampleSize

\* lines 122-137: the parsers in the order they were registered
parsers == <<"cloudflare_one">>

\* parser.validateFormat(content); an exception counts as a refusal (line 168)
Accepts(logType, text) ==
    CASE logType = "cloudflare_one" -> validateFormat(text)

\* a detection that never refuses
autoDetectParserFirst(text) == parsers[1]

\* lines 161-175: the detected parser's name, or NULL
autoDetectParser(text) ==
    IF \E i \in 1..Len(parsers) : Accepts(parsers[i], text)
    THEN parsers[CHOOSE i \in 1..Len(parsers) :
                    /\ Accepts(parsers[i], text)
                    /\ \A j \in 1..(i - 1) : ~Accepts(parsers[j], text)]
    ELSE NULL

(***************************************************************************)
(* analyzeAnomalies, step by step.                                         *)
(***************************************************************************)
None == [kind |-> "none"]

\* the second invocation before its request arrives
Idle ==
    [pc |-> "idle", entries |-> <<>>, stat |-> None, sample |-> <<>>,
     aiCalls |-> 0, call |-> None, ai |-> None, result |-> None]

\* no row stored and no request made
NoRoute == [rows |-> <<>>, via |-> "none", analyses |-> 0]

Init ==
    /\ entries = <<>>
    /\ runs = 0
    /\ pc = "input"
    /\ stat = None
    /\ sample = <<>>
    /\ aiCalls = 0
    /\ call = None
    /\ ai = None
    /\ result = None
    /\ content = <<>>
    /\ parsePc = "upload"
    /\ loop = [i |-> 0, parser |-> NULL, entries |-> <<>>, validEntries |-> 0,
               invalidEntries |-> 0, outcome |-> None]
    /\ parseResult = None
    /\ other = Idle
    /\ prompt = None
    /\ route = NoRoute

\* the caller's record list grows by a run of len records of one kind,
\* numbered by their place in the list
AppendRun(kind, len) ==
    /\ pc = "input"
    /\ runs < MaxRuns
    /\ entries' = entries \o
            [i \in 1..len |-> [Kinds[kind] EXCEPT !.lineNumber = Len(entries) + i]]
    /\ runs' = runs + 1
    /\ UNCHANGED <<pc, stat, sample, aiCalls, call, ai, result>>
    /\ UNCHANGED parseVars
    /\ UNCHANGED <<other, prompt, route>>

\* lines 32-39: nothing to analyze
AnalyzeNothing ==
    /\ pc = "input"
    /\ Len(entries) = 0
    /\ result' = [kind |-> "value", anomalies |-> <<>>,
                  summary |-> Text("No entries to analyze"),
                  confidence |-> <<0, 10>>, patterns |-> emptyPatterns]
    /\ pc' = "done"
    /\ UNCHANGED <<entries, runs, stat, sample, aiCalls, call, ai>>
    /\ UNCHANGED parseVars
    /\ UNCHANGED <<other, prompt, route>>

\* the statistical pass entered without the check of lines 32-39
StatisticalPassUnguarded ==
    /\ pc = "input"
    /\ stat' = performStatisticalAnalysis(entries)
    /\ pc' = "statistics"
    /\ UNCHANGED <<entries, runs, sample, aiCalls, call, ai, result>>
    /\ UNCHANGED parseVars
    /\ UNCHANGED <<other, prompt, route>>

\* line 44
StatisticalPass ==
    /\ pc = "input"
    /\ Len(entries) > 0
    /\ stat' = performStatisticalAnalysis(entries)
    /\ pc' = "statistics"
    /\ UNCHANGED <<entries, runs, sample, aiCalls, call, ai, result>>
    /\ UNCHANGED parseVars
    /\ UNCHANGED <<other, prompt, route>>

previewLimit == 20

ipSummaryLimit == 10

\* lines 266-273: entries.slice(0, 20).map(...), the members a record of the
\* model has
entrySummaries(list) ==
    [i \in 1..Min(previewLimit, Len(list)) |->
        [timestamp |-> list[i].timestamp, source_ip |-> list[i].source_ip,
         status_code |-> list[i].status_code, user_agent |-> list[i].user_agent]]

\* buildAnalysisPrompt(entries, patterns): what the text is filled with, in
\* the order of the text.  Array.from(map.entries()) lists a Map in the order
\* its keys were first set.
buildAnalysisPrompt(list, patterns) ==
    [total |-> Len(list),
     entrySummaries |-> entrySummaries(list),
     ipFrequency |-> SubSeq(patterns.ipFrequency, 1,
                            Min(ipSummaryLimit, Len(patterns.ipFrequency))),
     statusCodes |-> patterns.statusCodes,
     timeDistribution |-> patterns.timePatterns]

\* a call that is issued again while the first one is awaited
CallModelRetried ==
    /\ pc \in {"statistics", "await"}
    /\ aiCalls < 2
    /\ sample' = selectSampleEntries(entries, stat.anomalies)
    /\ IF Len(sample') = 0
       THEN /\ ai' = NothingToSend(stat)
            /\ pc' = "reconciled"
            /\ UNCHANGED aiCalls
            /\ UNCHANGED prompt
       ELSE /\ prompt' = buildAnalysisPrompt(sample', stat.patterns)
            /\ aiCalls' = aiCalls + 1
            /\ pc' = "await"
            /\ UNCHANGED ai
    /\ UNCHANGED <<entries, runs, stat, call, result>>
    /\ UNCHANGED parseVars
    /\ UNCHANGED <<other, route>>

\* lines 179-206: performAIAnalysis up to the await of the model call
CallModel ==
    /\ pc = "statistics"
    /\ sample' = selectSampleEntries(entries, stat.anomalies)
    /\ IF Len(sample') = 0
       THEN /\ ai' = NothingToSend(stat)
            /\ pc' = "reconciled"
            /\ UNCHANGED aiCalls
            /\ UNCHANGED prompt
       ELSE /\ prompt' = buildAnalysisPrompt(sample', stat.patterns)
            /\ aiCalls' = aiCalls + 1
            /\ pc' = "await"
            /\ UNCHANGED ai
    /\ UNCHANGED <<entries, runs, stat, call, result>>
    /\ UNCHANGED parseVars
    /\ UNCHANGED <<other, route>>

\* the awaited call rejects: network error, timeout, cancellation, auth or
\* rate-limit error all arrive as a rejection caught at line 220
ModelFails ==
    /\ pc = "await"
    /\ call' = [kind |-> "failed"]
    /\ ai' = StatisticalOnly(stat)
    /\ pc' = "reconciled"
    /\ UNCHANGED <<entries, runs, stat, sample, aiCalls, result>>
    /\ UNCHANGED parseVars
    /\ UNCHANGED <<other, prompt, route>>

\* the awaited call resolves with a reply text
ModelReplies(aiResponse) ==
    /\ pc = "await"
    /\ call' = [kind |-> "reply", text |-> aiResponse]
    /\ ai' = Reconcile(stat, aiResponse)
    /\ pc' = "reconciled"
    /\ UNCHANGED <<entries, runs, stat, sample, aiCalls, result>>
    /\ UNCHANGED parseVars
    /\ UNCHANGED <<other, prompt, route>>

\* a result whose timeline is left empty when the model call failed
CombineTimelineOnSuccess ==
    /\ pc = "reconciled"
    /\ result' = IF TimelineThrows(entries)
                 THEN [kind |-> "throw", message |-> "Failed to perform anomaly detection"]
                 ELSE [kind |-> "value",
                       anomalies |-> ai.anomalies,
                       summary |-> ai.summary,
                       confidence |-> ai.confidence,
                       patterns |-> stat.patterns,
                       timeline |-> IF call.kind = "failed" THEN <<>>
                                    ELSE generateTimeline(entries),
                       recommendations |-> ai.recommendations]
    /\ pc' = "done"
    /\ UNCHANGED <<entries, runs, stat, sample, aiCalls, call, ai>>
    /\ UNCHANGED parseVars
    /\ UNCHANGED <<other, prompt, route>>

\* lines 50-64: the result is put together; an error of generateTimeline is
\* caught at line 61 and rethrown as this function's own error
Combine ==
    /\ pc = "reconciled"
    /\ result' = IF TimelineThrows(entries)
                 THEN [kind |-> "throw", message |-> "Failed to perform anomaly detection"]
                 ELSE [kind |-> "value",
                       anomalies |-> ai.anomalies,
                       summary |-> ai.summary,
                       confidence |-> ai.confidence,
                       patterns |-> stat.patterns,
                       timeline |-> generateTimeline(entries),
                       recommendations |-> ai.recommendations]
    /\ pc' = "done"
    /\ UNCHANGED <<entries, runs, stat, sample, aiCalls, call, ai>>
    /\ UNCHANGED parseVars
    /\ UNCHANGED <<other, prompt, route>>

Next ==
    \/ \E kind \in 1..Len(Kinds), len \in PipelineLens : AppendRun(kind, len)
    \/ AnalyzeNothing
    \/ StatisticalPass
    \/ CallModel
    \/ ModelFails
    \/ \E aiResponse \in Replies : ModelReplies(aiResponse)
    \/ Combine

Spec == Init /\ [][Next]_vars

\* the statistical pass and the sample selection alone, over more lists
SignalsNext ==
    \/ \E kind \in 1..Len(Kinds), len \in RunLens : AppendRun(kind, len)
    \/ StatisticalPass
    \/ CallModel

SpecSignals == Init /\ [][SignalsNext]_vars

\* the records of the k-th client: its own address, the hour k of the day
VisitOf(k) ==
    Rec(At(k % 24, 30), "10.0.0." \o ToString(k), IF k % 2 = 1 THEN 200 ELSE 404,
        "Mozilla/5.0")

\* the caller's record list grows by len records of a client not seen before
AppendVisit(len) ==
    /\ pc = "input"
    /\ runs < MaxVisitors
    /\ entries' = entries \o
            [i \in 1..len |-> [VisitOf(runs + 1) EXCEPT !.lineNumber = Len(entries) + i]]
    /\ runs' = runs + 1
    /\ UNCHANGED <<pc, stat, sample, aiCalls, call, ai, result>>
    /\ UNCHANGED parseVars
    /\ UNCHANGED <<other, prompt, route>>

\* the request to the model, for lists of many clients
PromptNext ==
    \/ \E len \in VisitLens : AppendVisit(len)
    \/ StatisticalPass
    \/ CallModel

SpecPrompt == Init /\ [][PromptNext]_vars

(***************************************************************************)
(* parseLogFile, step by step.                                             *)
(***************************************************************************)
pipelineVars == <<entries, runs, pc, stat, sample, aiCalls, call, ai, result>>

\* the file to upload gets one more line
WriteLine(k) ==
    /\ parsePc = "upload"
    /\ Len(content) < MaxLines
    /\ content' = Append(content, LogLines[k])
    /\ UNCHANGED <<parsePc, loop, parseResult>>
    /\ UNCHANGED pipelineVars
    /\ UNCHANGED <<other, prompt, route>>

\* lines 184-197: the format is detected, or parseLogFile throws
Detect ==
    /\ parsePc = "upload"
    /\ IF autoDetectParser(content) = NULL
       THEN /\ parseResult' = Thrown("Unable to detect log format. Please ensure the file is in a supported format.")
            /\ parsePc' = "done"
            /\ UNCHANGED loop
       ELSE /\ loop' = [i |-> 0, parser |-> autoDetectParser(content),
                        entries |-> <<>>, validEntries |-> 0,
                        invalidEntries |-> 0, outcome |-> None]
            /\ parsePc' = "loop"
            /\ UNCHANGED parseResult
    /\ UNCHANGED content
    /\ UNCHANGED pipelineVars
    /\ UNCHANGED <<other, prompt, route>>

\* parser.parseLine(line, i + 1)
ParseLineOf(logType, line, lineNumber) ==
    CASE logType = "cloudflare_one" -> parseLine(line, lineNumber)

\* a loop that skips only the lines of no characters
AfterLineUntrimmed(locals, line) ==
    LET lineNumber == locals.i + 1
        entry == ParseLineOf(locals.parser, line, lineNumber)
        next == [locals EXCEPT !.i = lineNumber]
    IN  IF line = Line(FALSE, Nothing) THEN [next EXCEPT !.outcome = None]
        ELSE IF entry.kind = "record"
        THEN [next EXCEPT !.entries = Append(@, entry), !.validEntries = @ + 1,
                          !.outcome = entry]
        ELSE [next EXCEPT !.invalidEntries = @ + 1, !.outcome = entry]

\* lines 199-214: one pass of the loop; a blank line is skipped, a line whose
\* parseLine returns null or throws is counted as invalid
AfterLine(locals, line) ==
    LET lineNumber == locals.i + 1
        entry == ParseLineOf(locals.parser, line, lineNumber)
        next == [locals EXCEPT !.i = lineNumber]
    IN  IF IsBlank(line) THEN [next EXCEPT !.outcome = None]
        ELSE IF entry.kind = "record"
        THEN [next EXCEPT !.entries = Append(@, entry), !.validEntries = @ + 1,
                          !.outcome = entry]
        ELSE [next EXCEPT !.invalidEntries = @ + 1, !.outcome = entry]

ParseNextLine ==
    /\ parsePc = "loop"
    /\ loop.i < Len(Split(content))
    /\ loop' = AfterLine(loop, Split(content)[loop.i + 1])
    /\ UNCHANGED <<content, parsePc, parseResult>>
    /\ UNCHANGED pipelineVars
    /\ UNCHANGED <<other, prompt, route>>

\* lines 216-229: the result (the parser's description, the file name and the
\* wall-clock parseDate are left out)
Finish ==
    /\ parsePc = "loop"
    /\ loop.i = Len(Split(content))
    /\ parseResult' = [kind |-> "value",
                       entries |-> loop.entries,
                       metadata |-> [totalLines |-> Len(Split(content)),
                                     validEntries |-> loop.validEntries,
                                     invalidEntries |-> loop.invalidEntries,
                                     logType |-> loop.parser]]
    /\ parsePc' = "done"
    /\ UNCHANGED <<content, loop>>
    /\ UNCHANGED pipelineVars
    /\ UNCHANGED <<other, prompt, route>>

ParseNext ==
    \/ \E k \in ParseLines : WriteLine(k)
    \/ Detect
    \/ ParseNextLine
    \/ Finish

SpecParse == Init /\ [][ParseNext]_vars

\* longer files of fewer kinds of line, for the format detection
WriteFormatLine(k) ==
    /\ parsePc = "upload"
    /\ Len(content) < MaxFormatLines
    /\ content' = Append(content, LogLines[k])
    /\ UNCHANGED <<parsePc, loop, parseResult>>
    /\ UNCHANGED pipelineVars
    /\ UNCHANGED <<other, prompt, route>>

FormatNext ==
    \/ \E k \in FormatLines : WriteFormatLine(k)
    \/ Detect
    \/ ParseNextLine
    \/ Finish

SpecFormat == Init /\ [][FormatNext]_vars

\* files of lines that become records, for the fields of the records
WriteFieldLine(k) ==
    /\ parsePc = "upload"
    /\ Len(content) < MaxLines
    /\ content' = Append(content, LogLines[k])
    /\ UNCHANGED <<parsePc, loop, parseResult>>
    /\ UNCHANGED pipelineVars
    /\ UNCHANGED <<other, prompt, route>>

FieldsNext ==
    \/ \E k \in FieldLines : WriteFieldLine(k)
    \/ Detect
    \/ ParseNextLine
    \/ Finish

SpecFields == Init /\ [][FieldsNext]_vars

(***************************************************************************)
(* Two invocations at once: the route builds a new service for every       *)
(* request (analysis.js, line 66), and the tables of the statistical pass  *)
(* are locals of performStatisticalAnalysis (lines 73-79).                 *)
(***************************************************************************)
\* the lengths of the record lists of two concurrent requests
PairLens == {1, 11}

\* the replies the model gives them
PairReplies ==
    { <<"p", "p">>,
      <<"p", "{", "S", "A", "C", "R", "}", "p">>,
      <<"{", "S", "C", "}">> }

RunOf(kind, len) == [i \in 1..len |-> [Kinds[kind] EXCEPT !.lineNumber = i]]

\* two requests arrive, each with the records of its own file
PairStart(kind, len, otherKind, otherLen) ==
    /\ pc = "input"
    /\ Len(entries) = 0
    /\ other.pc = "idle"
    /\ entries' = RunOf(kind, len)
    /\ other' = [other EXCEPT !.pc = "input", !.entries = RunOf(otherKind, otherLen)]
    /\ UNCHANGED <<runs, pc, stat, sample, aiCalls, call, ai, result>>
    /\ UNCHANGED parseVars
    /\ UNCHANGED <<prompt, route>>

\* a statistical pass whose tables are shared by the invocations
OtherStatisticalPassShared ==
    /\ other.pc = "input"
    /\ Len(other.entries) > 0
    /\ other' = [other EXCEPT
                    !.stat = [performStatisticalAnalysis(other.entries) EXCEPT
                                !.patterns = CountEntries(
                                    IF stat = None THEN emptyPatterns ELSE stat.patterns,
                                    other.entries, 1, Len(other.entries))],
                    !.pc = "statistics"]
    /\ UNCHANGED pipelineVars
    /\ UNCHANGED parseVars
    /\ UNCHANGED <<prompt, route>>

\* line 44, in the second invocation
OtherStatisticalPass ==
    /\ other.pc = "input"
    /\ Len(other.entries) > 0
    /\ other' = [other EXCEPT !.stat = performStatisticalAnalysis(other.entries),
                              !.pc = "statistics"]
    /\ UNCHANGED pipelineVars
    /\ UNCHANGED parseVars
    /\ UNCHANGED <<prompt, route>>

\* lines 179-206, in the second invocation
OtherCallModel ==
    /\ other.pc = "statistics"
    /\ LET sampleEntries == selectSampleEntries(other.entries, other.stat.anomalies)
       IN  other' = IF Len(sampleEntries) = 0
                    THEN [other EXCEPT !.sample = sampleEntries,
                                       !.ai = NothingToSend(other.stat),
                                       !.pc = "reconciled"]
                    ELSE [other EXCEPT !.sample = sampleEntries,
                                       !.aiCalls = @ + 1,
                                       !.pc = "await"]
    /\ UNCHANGED pipelineVars
    /\ UNCHANGED parseVars
    /\ UNCHANGED <<prompt, route>>

OtherModelFails ==
    /\ other.pc = "await"
    /\ other' = [other EXCEPT !.call = [kind |-> "failed"],
                              !.ai = StatisticalOnly(other.stat),
                              !.pc = "reconciled"]
    /\ UNCHANGED pipelineVars
    /\ UNCHANGED parseVars
    /\ UNCHANGED <<prompt, route>>

OtherModelReplies(aiResponse) ==
    /\ other.pc = "await"
    /\ other' = [other EXCEPT !.call = [kind |-> "reply", text |-> aiResponse],
                              !.ai = Reconcile(other.stat, aiResponse),
                              !.pc = "reconciled"]
    /\ UNCHANGED pipelineVars
    /\ UNCHANGED parseVars
    /\ UNCHANGED <<prompt, route>>

\* lines 50-64, in the second invocation
OtherCombine ==
    /\ other.pc = "reconciled"
    /\ other' = [other EXCEPT
            !.result = IF TimelineThrows(other.entries)
                       THEN [kind |-> "throw", message |-> "Failed to perform anomaly detection"]
                       ELSE [kind |-> "value",
                             anomalies |-> other.ai.anomalies,
                             summary |-> other.ai.summary,
                             confidence |-> other.ai.confidence,
                             patterns |-> other.stat.patterns,
                             timeline |-> generateTimeline(other.entries),
                             recommendations |-> other.ai.recommendations],
            !.pc = "done"]
    /\ UNCHANGED pipelineVars
    /\ UNCHANGED parseVars
    /\ UNCHANGED <<prompt, route>>

PairNext ==
    \/ \E kind, otherKind \in 1..Len(Kinds), len, otherLen \in PairLens :
            PairStart(kind, len, otherKind, otherLen)
    \/ StatisticalPass
    \/ CallModel
    \/ ModelFails
    \/ \E aiResponse \in PairReplies : ModelReplies(aiResponse)
    \/ Combine
    \/ OtherStatisticalPass
    \/ OtherCallModel
    \/ OtherModelFails
    \/ \E aiResponse \in PairReplies : OtherModelReplies(aiResponse)
    \/ OtherCombine

SpecPair == Init /\ [][PairNext]_vars

(***************************************************************************)
(* POST /analyze/:fileId of routes/analysis.js.  The rows of log_entries   *)
(* of one file are kept in the order of the query, ORDER BY timestamp ASC; *)
(* the column timestamp is TIMESTAMP NOT NULL and holds a date.            *)
(***************************************************************************)
\* the kinds of record a row can hold
StoredKinds == {k \in 1..Len(Kinds) : Kinds[k].timestamp.k = "date"}

\* a row of the kind sorts after the rows there are
SortsLast(rows, kind) ==
    IF Len(rows) = 0 THEN TRUE
    ELSE rows[Len(rows)].timestamp.t <= Kinds[kind].timestamp.t

\* the upload stored len more rows of one kind, is_anomaly false by default
StoreRows(kind, len) ==
    /\ pc = "input"
    /\ Len(entries) = 0
    /\ route.via = "none"
    /\ route.analyses = 0
    /\ runs < MaxRuns
    /\ SortsLast(route.rows, kind)
    /\ route' = [route EXCEPT !.rows = @ \o
            [i \in 1..len |-> [Kinds[kind] EXCEPT !.lineNumber = Len(route.rows) + i]]]
    /\ runs' = runs + 1
    /\ UNCHANGED <<entries, pc, stat, sample, aiCalls, call, ai, result>>
    /\ UNCHANGED parseVars
    /\ UNCHANGED <<other, prompt>>

\* lines 38-43 and 51-61: the columns the query selects and the map copies;
\* is_anomaly is not among them, and line 361 reads the missing member as
\* undefined, which is falsy
SelectedColumns(row) == [row EXCEPT !.is_anomaly = FALSE]

\* a query that selects is_anomaly as well
ReadRowsWithFlags ==
    /\ pc = "input"
    /\ Len(entries) = 0
    /\ route.via = "none"
    /\ Len(route.rows) > 0
    /\ route.analyses < MaxAnalyses
    /\ entries' = route.rows
    /\ route' = [route EXCEPT !.via = "route"]
    /\ UNCHANGED <<runs, pc, stat, sample, aiCalls, call, ai, result>>
    /\ UNCHANGED parseVars
    /\ UNCHANGED <<other, prompt>>

\* lines 38-61: the request reads the file's rows; without rows it is
\* answered 400 at line 48 and nothing is analysed
ReadRows ==
    /\ pc = "input"
    /\ Len(entries) = 0
    /\ route.via = "none"
    /\ Len(route.rows) > 0
    /\ route.analyses < MaxAnalyses
    /\ entries' = [i \in 1..Len(route.rows) |-> SelectedColumns(route.rows[i])]
    /\ route' = [route EXCEPT !.via = "route"]
    /\ UNCHANGED <<runs, pc, stat, sample, aiCalls, call, ai, result>>
    /\ UNCHANGED parseVars
    /\ UNCHANGED <<other, prompt>>

\* analyzeAnomalies called outside the route, with records that carry their
\* flags
AnalyzeFlagged ==
    /\ pc = "input"
    /\ Len(entries) = 0
    /\ route.via = "none"
    /\ Len(route.rows) > 0
    /\ entries' = route.rows
    /\ route' = [route EXCEPT !.via = "direct"]
    /\ UNCHANGED <<runs, pc, stat, sample, aiCalls, call, ai, result>>
    /\ UNCHANGED parseVars
    /\ UNCHANGED <<other, prompt>>

\* anomaly.type === 'high_frequency_ip'
IsHighFrequency(anomaly) ==
    "type" \in DOMAIN anomaly /\ anomaly.type = "high_frequency_ip"

\* anomaly.affected_ips || [anomaly.ip], the undefined ones left out
AffectedIPs(anomaly) ==
    IF "affected_ips" \in DOMAIN anomaly
    THEN {anomaly.affected_ips[i] : i \in 1..Len(anomaly.affected_ips)}
    ELSE IF "ip" \in DOMAIN anomaly THEN {anomaly.ip} ELSE {}

\* the IPs of the UPDATE statements of lines 96-101
MarkedIPs(anomalies) ==
    UNION {AffectedIPs(anomalies[i]) :
                i \in {j \in 1..Len(anomalies) : IsHighFrequency(anomalies[j])}}

\* lines 89-108 and the response: the rows of the flagged IPs are marked, and
\* the request is over
MarkAnomalies ==
    /\ pc = "done"
    /\ route.via = "route"
    /\ result.kind = "value"
    /\ route' = [rows |-> [i \in 1..Len(route.rows) |->
                            IF route.rows[i].source_ip \in MarkedIPs(result.anomalies)
                            THEN [route.rows[i] EXCEPT !.is_anomaly = TRUE]
                            ELSE route.rows[i]],
                 via |-> "none",
                 analyses |-> route.analyses + 1]
    /\ entries' = <<>>
    /\ pc' = "input"
    /\ stat' = None
    /\ sample' = <<>>
    /\ aiCalls' = 0
    /\ call' = None
    /\ ai' = None
    /\ result' = None
    /\ prompt' = None
    /\ UNCHANGED runs
    /\ UNCHANGED parseVars
    /\ UNCHANGED other

RouteNext ==
    \/ \E kind \in StoredKinds, len \in PipelineLens : StoreRows(kind, len)
    \/ ReadRows
    \/ AnalyzeFlagged
    \/ StatisticalPass
    \/ CallModel
    \/ ModelFails
    \/ \E aiResponse \in PairReplies : ModelReplies(aiResponse)
    \/ Combine
    \/ MarkAnomalies

SpecRoute == Init /\ [][RouteNext]_vars

(***************************************************************************)
(* Properties.                                                             *)
(***************************************************************************)
Returned == pc = "done" /\ result.kind = "value"

\* how many places of a sequence satisfy Test
CountWhere(s, Test(_)) == Cardinality({i \in 1..Len(s) : Test(s[i])})

\* C1: for every non-empty record list and every outcome of the model call,
\* analyzeAnomalies returns an AnalysisResult and never ends by raising an
\* error to its caller.
C1_AlwaysReturnsResult ==
    (pc = "done" /\ Len(entries) > 0) =>
        /\ result.kind = "value"
        /\ DOMAIN result = {"kind", "anomalies", "summary", "confidence",
                            "patterns", "timeline", "recommendations"}

\* C2: when the model call itself fails, performAIAnalysis returns exactly
\* the statistical anomaly list, the summary "AI analysis unavailable, using
\* statistical analysis only", confidence 0.5 and the one recommendation
\* "Enable AI analysis for enhanced threat detection", and a result that
\* analyzeAnomalies returns carries the same four values.
C2_FailedCallFallsBack ==
    (call.kind = "failed") =>
        /\ ai.anomalies = stat.anomalies
        /\ ai.summary = [head |-> <<>>,
                         lit |-> "AI analysis unavailable, using statistical analysis only"]
        /\ 2 * ai.confidence[1] = ai.confidence[2]
        /\ ai.recommendations = <<"Enable AI analysis for enhanced threat detection">>
        /\ Returned =>
            /\ result.anomalies = stat.anomalies
            /\ result.summary = ai.summary
            /\ 2 * result.confidence[1] = result.confidence[2]
            /\ result.recommendations = ai.recommendations

\* the call failed, statistical anomalies exist, and the result was returned
C2_Witness ==
    /\ call.kind = "failed"
    /\ Returned
    /\ Len(stat.anomalies) > 0

\* C3: given zero records, analyzeAnomalies returns the "no findings" result
\* (no anomalies, summary "No entries to analyze", confidence 0) and the
\* model is never called.
C3_EmptyInputShortCircuits ==
    (Len(entries) = 0 /\ pc # "input") =>
        /\ pc = "done"
        /\ aiCalls = 0
        /\ call.kind = "none"
        /\ result.kind = "value"
        /\ result.anomalies = <<>>
        /\ result.summary = [head |-> <<>>, lit |-> "No entries to analyze"]
        /\ result.confidence[1] = 0

C3_Witness == Len(entries) = 0 /\ pc = "done"

\* the IPs named by the high_frequency_ip anomalies of the statistical pass
FlaggedIPs ==
    {stat.anomalies[i].ip :
        i \in {j \in 1..Len(stat.anomalies) :
                stat.anomalies[j].type = "high_frequency_ip"}}

FromFlaggedIP(entry) == entry.source_ip # NULL /\ entry.source_ip \in FlaggedIPs

FromOther(entry) == ~FromFlaggedIP(entry)

\* C4: the sample never holds more than 50 records, whatever the list.
C4_SampleAtMost50 == Len(sample) <= 50

\* a list of more than 50 records gave a full sample
C4_Witness == pc = "await" /\ Len(entries) > 50 /\ Len(sample) = 50

\* C5: the sample holds at most 30 records of flagged IPs.
C5_AtMost30Flagged ==
    (pc = "await") => CountWhere(sample, FromFlaggedIP) <= 30

\* more than 30 records of flagged IPs exist and 30 of them are sampled
C5_Witness ==
    /\ pc = "await"
    /\ CountWhere(entries, FromFlaggedIP) > 30
    /\ CountWhere(sample, FromFlaggedIP) = 30

\* C6: the sample is the first up-to-30 records of flagged IPs in their
\* original order, then the first records of the others in their original
\* order up to 50 in all; no record is taken twice; without a flagged IP it
\* is the first min(50, n) records of the list.
C6_SampleIsPrefixOfEachPartition ==
    (pc = "await") =>
        LET n == Len(entries)
            flagged == CountWhere(entries, FromFlaggedIP)
            k == CountWhere(sample, FromFlaggedIP)
            m == Len(sample) - k
        IN  /\ k = Min(30, flagged)
            /\ m = Min(n - flagged, 50 - k)
            /\ \A p \in 1..Len(sample) :
                /\ FromFlaggedIP(sample[p]) <=> p <= k
                /\ sample[p].lineNumber \in 1..n
                /\ sample[p] = entries[sample[p].lineNumber]
            /\ \A p \in 1..(Len(sample) - 1) :
                p # k => sample[p].lineNumber < sample[p + 1].lineNumber
            /\ k > 0 =>
                Cardinality({i \in 1..sample[k].lineNumber :
                                FromFlaggedIP(entries[i])}) = k
            /\ m > 0 =>
                Cardinality({i \in 1..sample[Len(sample)].lineNumber :
                                FromOther(entries[i])}) = m
            /\ flagged = 0 => sample = SubSeq(entries, 1, Min(50, n))

\* a record of another IP precedes the flagged ones in the list and follows
\* them in the sample, which is full
C6_Witness ==
    /\ pc = "await"
    /\ Len(sample) = 50
    /\ FromOther(entries[1])
    /\ FromFlaggedIP(sample[1])
    /\ CountWhere(sample, FromFlaggedIP) = 30

\* the keys of a field that occur in the list (NULL and 0 stand for none)
SourceIPs == {entries[i].source_ip : i \in 1..Len(entries)} \ {NULL}

StatusCodes == {entries[i].status_code : i \in 1..Len(entries)} \ {0}

UserAgents == {entries[i].user_agent : i \in 1..Len(entries)} \ {NULL}

RecordsOfIP(ip) == Cardinality({i \in 1..Len(entries) : entries[i].source_ip = ip})

RecordsOfStatus(code) ==
    Cardinality({i \in 1..Len(entries) : entries[i].status_code = code})

RecordsOfUserAgent(ua) ==
    Cardinality({i \in 1..Len(entries) : entries[i].user_agent = ua})

HighFreqFor(ip) ==
    {j \in 1..Len(stat.anomalies) :
        stat.anomalies[j].type = "high_frequency_ip" /\ stat.anomalies[j].ip = ip}

UnusualFor(code) ==
    {j \in 1..Len(stat.anomalies) :
        /\ stat.anomalies[j].type = "unusual_status_code"
        /\ stat.anomalies[j].status_code = code}

SuspiciousFor(ua) ==
    {j \in 1..Len(stat.anomalies) :
        /\ stat.anomalies[j].type = "suspicious_user_agent"
        /\ stat.anomalies[j].user_agent = ua}

C9_SuspiciousUserAgents ==
    (pc = "statistics") =>
        /\ \A ua \in UserAgents :
            Cardinality(SuspiciousFor(ua)) =
                IF ua \in {"curl/7.68.0", "CURL/7.68.0", "sqlmap/1.0"} THEN 1 ELSE 0
        /\ \A j \in 1..Len(stat.anomalies) :
            stat.anomalies[j].type = "suspicious_user_agent" =>
                /\ stat.anomalies[j].user_agent \in UserAgents
                /\ stat.anomalies[j].confidence[1] * 100 =
                        85 * stat.anomalies[j].confidence[2]

\* the upper-case user agent in a single record is flagged, beside another
\* user agent that is not
C9_Witness ==
    /\ pc = "statistics"
    /\ RecordsOfUserAgent("CURL/7.68.0") = 1
    /\ SuspiciousFor("CURL/7.68.0") # {}
    /\ "Mozilla/5.0" \in UserAgents

RECURSIVE FirstPlace(_, _, _)
\* the first place in lo..hi of the list whose record satisfies Has (one does)
FirstPlace(Has(_), lo, hi) ==
    IF lo = hi THEN lo
    ELSE LET mid == (lo + hi) \div 2
         IN  IF \E i \in lo..mid : Has(entries[i])
             THEN FirstPlace(Has, lo, mid)
             ELSE FirstPlace(Has, mid + 1, hi)

\* where the key of a statistical anomaly first occurs in the list
FirstOccurrence(a) ==
    LET HasKey(entry) ==
            CASE a.type = "high_frequency_ip" -> entry.source_ip = a.ip
              [] a.type = "unusual_status_code" -> entry.status_code = a.status_code
              [] a.type = "suspicious_user_agent" -> entry.user_agent = a.user_agent
    IN  FirstPlace(HasKey, 1, Len(entries))

GroupOf(a) ==
    CASE a.type = "high_frequency_ip" -> 1
      [] a.type = "unusual_status_code" -> 2
      [] a.type = "suspicious_user_agent" -> 3

\* C10: the statistical anomalies come in three groups, IPs, then status
\* codes, then user agents, each group in the order in which its keys first
\* occur in the list.
C10_AnomalyOrder ==
    (pc = "statistics") =>
        \A i \in 1..(Len(stat.anomalies) - 1) :
            LET a == stat.anomalies[i]
                b == stat.anomalies[i + 1]
            IN  /\ GroupOf(a) <= GroupOf(b)
                /\ GroupOf(a) = GroupOf(b) => FirstOccurrence(a) < FirstOccurrence(b)

\* all three groups occur, two IPs among them in the order of the list
C10_Witness ==
    /\ pc = "statistics"
    /\ Len(stat.anomalies) >= 4
    /\ HighFreqFor("2.2.2.2") = {1}
    /\ HighFreqFor("1.1.1.1") = {2}
    /\ \E j \in 1..Len(stat.anomalies) : stat.anomalies[j].type = "unusual_status_code"
    /\ \E j \in 1..Len(stat.anomalies) : stat.anomalies[j].type = "suspicious_user_agent"

\* the reply parsed by JSON.parse (not one of the two degraded results)
ReplyParses ==
    /\ call.kind = "reply"
    /\ HasMatch(call.text)
    /\ IsJson(JsonMatch(call.text))

\* the anomalies of the parsed reply (none when it has no anomalies array)
ReplyAnomalies ==
    LET member == parseAIResponse(call.text).anomalies
    IN  IF member.kind = "value" THEN member.v ELSE <<>>

\* C11: when the model call succeeds and its reply parses, the final anomaly
\* list is the statistical anomalies in their order followed by all anomalies
\* of the reply in their order, nothing removed or merged, even when a reply
\* anomaly names an IP already flagged statistically.
C11_ConcatenatesAnomalies ==
    ReplyParses =>
        /\ ai.anomalies = stat.anomalies \o ReplyAnomalies
        /\ Len(ai.anomalies) = Len(stat.anomalies) + Len(ReplyAnomalies)
        /\ Returned => result.anomalies = stat.anomalies \o ReplyAnomalies

\* a returned result whose reply anomaly names an IP that the statistical
\* pass flagged as well
C11_Witness ==
    /\ ReplyParses
    /\ Returned
    /\ \E i \in 1..Len(ReplyAnomalies), j \in 1..Len(stat.anomalies) :
            /\ stat.anomalies[j].type = "high_frequency_ip"
            /\ \E k \in 1..Len(ReplyAnomalies[i].affected_ips) :
                    ReplyAnomalies[i].affected_ips[k] = stat.anomalies[j].ip

RECURSIVE BalancedEnd(_, _, _)
\* the place of the "}" that closes the "{" at place i - 1 of a reply, depth
\* braces being open at place i (0 when it is never closed)
BalancedEnd(response, i, depth) ==
    IF i > Len(response) THEN 0
    ELSE IF response[i] = "{" THEN BalancedEnd(response, i + 1, depth + 1)
    ELSE IF response[i] = "}"
         THEN IF depth = 1 THEN i ELSE BalancedEnd(response, i + 1, depth - 1)
    ELSE BalancedEnd(response, i + 1, depth)

\* the place of the first "{" of a reply (0 when there is none)
FirstBrace(response) ==
    IF \E i \in 1..Len(response) : response[i] = "{"
    THEN CHOOSE i \in 1..Len(response) :
            response[i] = "{" /\ \A k \in 1..(i - 1) : response[k] # "{"
    ELSE 0

HasBalanced(response) ==
    /\ FirstBrace(response) > 0
    /\ BalancedEnd(response, FirstBrace(response) + 1, 1) > 0

\* the first balanced {...} block of a reply
FirstBalanced(response) ==
    SubSeq(response, FirstBrace(response),
           BalancedEnd(response, FirstBrace(response) + 1, 1))

\* the degraded result of lines 326-331 for a reply
Degraded(response) ==
    [summary |-> Present([head |-> SubSeq(response, 1, Min(200, Len(response))),
                          lit |-> "..."]),
     anomalies |-> Present(<<>>),
     confidence |-> Present(<<5, 10>>),
     recommendations |-> Present(<<"Manual review recommended">>)]

\* C12: when the reply contains a {...} block that cannot be parsed as JSON,
\* parseAIResponse returns the same degraded result as for a failed
\* extraction: summary = first 200 characters of the raw reply plus an
\* ellipsis, anomalies empty, confidence 0.5, recommendations ["Manual review
\* recommended"].
C12_UnparseableBlockDegrades ==
    (/\ call.kind = "reply"
     /\ HasBalanced(call.text)
     /\ ~IsJson(FirstBalanced(call.text))
     /\ ~IsJson(JsonMatch(call.text))) =>
        parseAIResponse(call.text) = Degraded(call.text)

\* C13: when the reply contains no {...} block at all, parseAIResponse
\* returns summary = first 200 characters of the reply followed by "...", an
\* empty anomaly list, confidence 0.5 and recommendations ["Manual review
\* recommended"].
C13_NoBlockDegrades ==
    (call.kind = "reply" /\ ~HasMatch(call.text)) =>
        LET parsed == parseAIResponse(call.text)
        IN  /\ parsed.summary.kind = "value"
            /\ parsed.summary.v.lit = "..."
            /\ Len(parsed.summary.v.head) = Min(200, Len(call.text))
            /\ \A i \in 1..Len(parsed.summary.v.head) :
                    parsed.summary.v.head[i] = call.text[i]
            /\ parsed.anomalies = Present(<<>>)
            /\ parsed.confidence.kind = "value"
            /\ 2 * parsed.confidence.v[1] = parsed.confidence.v[2]
            /\ parsed.recommendations = Present(<<"Manual review recommended">>)

\* a reply of more than 200 characters without a block was received
C13_Witness ==
    /\ call.kind = "reply"
    /\ ~HasMatch(call.text)
    /\ Len(call.text) > 200
    /\ pc = "done"

\* C14: parseAIResponse extracts the first balanced {...} JSON object of the
\* reply: with prose before and after a single block the embedded object is
\* recovered exactly, and when a well-formed object is followed by further
\* text containing braces (a second object, or a stray "}"), the object
\* parsed is still the first balanced one.
C14_FirstBalancedObject ==
    (/\ call.kind = "reply"
     /\ HasBalanced(call.text)
     /\ IsJson(FirstBalanced(call.text))) =>
        parseAIResponse(call.text) =
            ObjectOf(FirstBalanced(call.text), Len(FirstBalanced(call.text)) - 1)

\* C15: on a successful call whose parsed reply lacks summary, confidence or
\* recommendations, the result takes the degraded default for the missing
\* field (a summary built from the first 200 characters of the reply,
\* confidence 0.5, recommendations ["Manual review recommended"]); a field
\* that is present is taken from the reply unchanged.
C15_MissingFieldsTakeDegradedDefaults ==
    (ReplyParses /\ parseAIResponse(call.text).anomalies.kind = "value") =>
        LET parsed == parseAIResponse(call.text)
            degraded == Degraded(call.text)
        IN  /\ ai.summary = IF parsed.summary.kind = "value"
                            THEN parsed.summary.v ELSE degraded.summary.v
            /\ ai.confidence = IF parsed.confidence.kind = "value"
                               THEN parsed.confidence.v ELSE degraded.confidence.v
            /\ ai.recommendations = IF parsed.recommendations.kind = "value"
                                    THEN parsed.recommendations.v
                                    ELSE degraded.recommendations.v

\* C16: every anomaly in the anomaly list of an AnalysisResult, statistical
\* or inferred from the reply, has a confidence that is present and lies in
\* [0, 1], whatever values the reply carries.
C16_AnomalyConfidenceInRange ==
    Returned =>
        \A i \in 1..Len(result.anomalies) :
            /\ "confidence" \in DOMAIN result.anomalies[i]
            /\ 0 <= result.anomalies[i].confidence[1]
            /\ result.anomalies[i].confidence[1] <= result.anomalies[i].confidence[2]

\* the line the loop of parseLogFile handled last
LastLine == Split(content)[loop.i]

\* parseLine was called on the last line
LineParsed == parsePc # "upload" /\ loop.i > 0 /\ loop.outcome.kind # "none"

\* a line that is a JSON object with EdgeStartTimestamp, ClientIP and
\* ClientRequestHost and one of ClientRequestURI, ClientRequestMethod,
\* OriginResponseStatus
HasRequiredFields(line) ==
    /\ line.body.kind = "json"
    /\ line.body.value.type = "object"
    /\ {"EdgeStartTimestamp", "ClientIP", "ClientRequestHost"}
            \subseteq DOMAIN line.body.value.members
    /\ {"ClientRequestURI", "ClientRequestMethod", "OriginResponseStatus"}
            \cap DOMAIN line.body.value.members # {}

ShadowsHasOwnProperty(line) ==
    /\ line.body.kind = "json"
    /\ line.body.value.type = "object"
    /\ "hasOwnProperty" \in DOMAIN line.body.value.members

\* a field extraction of a line ends in a TypeError: its status or byte
\* count is an object that has no string conversion
ExtractionFails(line) ==
    /\ line.body.kind = "json"
    /\ line.body.value.type = "object"
    /\ \E field \in {"OriginResponseStatus", "EdgeResponseStatus",
                      "EdgeResponseBytes", "OriginResponseBytes"} :
            /\ field \in DOMAIN line.body.value.members
            /\ line.body.value.members[field] = NoPrimitive

AllBlank == \A n \in 1..Len(Split(content)) : IsBlank(Split(content)[n])

\* C18: for every input whose content has no lines or only blank lines,
\* parseLogFile returns a result with validEntries = 0 and invalidEntries = 0.
C18_BlankContentParsesToNothing ==
    (parsePc = "done" /\ AllBlank) =>
        /\ parseResult.kind = "value"
        /\ parseResult.metadata.validEntries = 0
        /\ parseResult.metadata.invalidEntries = 0

\* the places among the first n lines that hold a non-blank line
NonBlankUpTo(n) == {m \in 1..n : ~IsBlank(Split(content)[m])}

\* those of them whose line the detected parser makes a record of
RecordLinesUpTo(n) ==
    {m \in NonBlankUpTo(n) :
        ParseLineOf(loop.parser, Split(content)[m], m).kind = "record"}

\* C19: for every content accepted by a parser, parseLogFile returns the
\* records in line order with validEntries equal to the number of records,
\* invalidEntries equal to the number of non-blank lines for which parseLine
\* returned null or threw, validEntries + invalidEntries equal to the number
\* of non-blank lines, and blank lines counted in neither; a line that throws
\* never aborts the batch.
C19_CountsAndOrder ==
    (parsePc # "upload" /\ autoDetectParser(content) # NULL) =>
        /\ Len(loop.entries) = loop.validEntries
        /\ loop.validEntries = Cardinality(RecordLinesUpTo(loop.i))
        /\ loop.invalidEntries =
                Cardinality(NonBlankUpTo(loop.i) \ RecordLinesUpTo(loop.i))
        /\ loop.validEntries + loop.invalidEntries =
                Cardinality(NonBlankUpTo(loop.i))
        /\ \A k \in 1..Len(loop.entries) :
                /\ loop.entries[k].lineNumber \in RecordLinesUpTo(loop.i)
                /\ loop.entries[k].raw_data =
                        Trim(Split(content)[loop.entries[k].lineNumber])
                /\ k > 1 => loop.entries[k - 1].lineNumber < loop.entries[k].lineNumber
        /\ parsePc = "done" =>
                /\ parseResult.kind = "value"
                /\ loop.i = Len(Split(content))
                /\ parseResult.entries = loop.entries
                /\ parseResult.metadata.validEntries = loop.validEntries
                /\ parseResult.metadata.invalidEntries = loop.invalidEntries

\* a result for a file with a line of white space only, a line that is no
\* JSON, and two records
C19_Witness ==
    /\ parsePc = "done"
    /\ parseResult.kind = "value"
    /\ parseResult.metadata.validEntries = 2
    /\ parseResult.metadata.invalidEntries = 1
    /\ \E n \in 1..Len(content) : content[n] = Line(TRUE, Nothing)
    /\ \E n \in 1..Len(content) : content[n].body = NotJson

\* the places in the registration order of the parsers that accept the file
Accepting == {n \in 1..Len(parsers) : Accepts(parsers[n], content)}

NonEmptyLines ==
    LET NonEmpty(line) == ~IsBlank(line) IN SelectSeq(Split(content), NonEmpty)

\* how many of the first n non-empty lines satisfy Test
SampledWhere(n, Test(_)) ==
    Cardinality({m \in 1..n : m <= Len(NonEmptyLines) /\ Test(NonEmptyLines[m])})

\* the number of lines validateFormat is to look at
SampleOf5 == IF Len(NonEmptyLines) < 5 THEN Len(NonEmptyLines) ELSE 5

\* the file was accepted by the detection
Accepted == parsePc # "upload" /\ loop.parser # NULL

CountsAsEntry(line) == HasRequiredFields(line) /\ ~ShadowsHasOwnProperty(line)

LastMembers == LastLine.body.value.members

\* the first of two members that the object has, Undefined when it has neither
FirstPresent(first, second) ==
    IF first \in DOMAIN LastMembers THEN LastMembers[first]
    ELSE IF second \in DOMAIN LastMembers THEN LastMembers[second]
    ELSE Undefined

\* a value that is a base-10 number: a number, or a string of digits
IsBase10(v) ==
    \/ v.t = "number"
    \/ /\ v.t = "string"
       /\ Len(v.chars) > 0
       /\ \A m \in 1..Len(v.chars) : v.chars[m] \in {"0", "1", "2", "3", "4", "5", "6", "7", "8", "9"}

\* the integer a base-10 number is
NumberOf(v) == IF v.t = "number" THEN v.n ELSE ValueOfDigits(v.chars, Len(v.chars))

\* the field a source value is to give
FieldOf(v) == IF IsBase10(v) THEN [t |-> "int", n |-> NumberOf(v)] ELSE [t |-> "null"]

\* C22: for every record produced by parseLine, status_code and bytes_sent
\* are each either an integer or null: a source value that is absent or is
\* not a base-10 number yields null, never a non-integer value and never an
\* exception; status_code is taken from the origin response status when
\* present and from the edge response status otherwise.
C22_NumericFields ==
    (LineParsed /\ loop.outcome.kind = "record") =>
        /\ loop.outcome.status_code.t \in {"int", "null"}
        /\ loop.outcome.bytes_sent.t \in {"int", "null"}
        /\ loop.outcome.status_code =
                FieldOf(FirstPresent("OriginResponseStatus", "EdgeResponseStatus"))
        /\ loop.outcome.bytes_sent =
                FieldOf(FirstPresent("EdgeResponseBytes", "OriginResponseBytes"))

\* the records given to analyzeAnomalies that have a timestamp
Timestamped == {n \in 1..Len(entries) : entries[n].timestamp.k # "null"}

\* those of them in a clock hour (hours counted from midnight UTC)
InHour(h) ==
    {n \in Timestamped :
        entries[n].timestamp.k = "date" /\ entries[n].timestamp.t \div 60 = h}

RECURSIVE SumOfCounts(_, _)
SumOfCounts(timeline, n) ==
    IF n = 0 THEN 0 ELSE SumOfCounts(timeline, n - 1) + timeline[n].count

\* C23: generateTimeline puts every record with a non-null timestamp into the
\* bucket of its UTC clock hour and returns one entry per non-empty hour,
\* sorted ascending by hour, whose total count is the number of such records
\* in that hour; records with a null timestamp are in no bucket, so the
\* counts sum to the number of timestamped records.
C23_TimelineBuckets ==
    (pc = "done" /\ Len(entries) > 0) =>
        /\ result.kind = "value"
        /\ \A k \in 1..Len(result.timeline) :
                /\ result.timeline[k].count = Cardinality(InHour(result.timeline[k].timestamp))
                /\ result.timeline[k].count > 0
                /\ k > 1 => result.timeline[k - 1].timestamp < result.timeline[k].timestamp
        /\ \A n \in Timestamped :
                \E k \in 1..Len(result.timeline) : n \in InHour(result.timeline[k].timestamp)
        /\ SumOfCounts(result.timeline, Len(result.timeline)) = Cardinality(Timestamped)

\* C24: for a fixed non-empty record list, the timeline and the pattern
\* tables in the AnalysisResult are the same whether the model call succeeds
\* with a parseable reply, succeeds with an unparseable reply, or fails: they
\* are what the record list alone determines.
C24_TimelineAndPatternsFrame ==
    (Returned /\ Len(entries) > 0) =>
        /\ result.patterns = stat.patterns
        /\ result.patterns = performStatisticalAnalysis(entries).patterns
        /\ result.timeline = generateTimeline(entries)

\* a result with a timeline and pattern tables after a failed call
C24_Witness ==
    /\ Returned
    /\ call.kind = "failed"
    /\ Len(result.timeline) > 1
    /\ Len(result.patterns.statusCodes) > 1

\* what analyzeAnomalies returns for a record list and an outcome of the
\* model call when it runs alone
AloneResult(list, outcome) ==
    LET statisticalAnomalies == performStatisticalAnalysis(list)
        aiAnalysis == IF outcome.kind = "failed"
                      THEN StatisticalOnly(statisticalAnomalies)
                      ELSE Reconcile(statisticalAnomalies, outcome.text)
    IN  IF TimelineThrows(list)
        THEN [kind |-> "throw", message |-> "Failed to perform anomaly detection"]
        ELSE [kind |-> "value",
              anomalies |-> aiAnalysis.anomalies,
              summary |-> aiAnalysis.summary,
              confidence |-> aiAnalysis.confidence,
              patterns |-> statisticalAnomalies.patterns,
              timeline |-> generateTimeline(list),
              recommendations |-> aiAnalysis.recommendations]

\* each finished invocation has the result it has when run alone
PairIndependent ==
    /\ (pc = "done" /\ other.pc # "idle") => result = AloneResult(entries, call)
    /\ other.pc = "done" => other.result = AloneResult(other.entries, other.call)

\* a step of either invocation leaves the records of both as they were given
PairRecordsKept ==
    other.pc # "idle" => (entries' = entries /\ other'.entries = other.entries)

\* C25: two analysis invocations for different files that interleave in any
\* way at the suspension point of the model call share no mutable state: each
\* returns exactly the result it would return when run alone with the same
\* records and the same model reply, and neither invocation modifies the
\* records it was given.
C25_InvocationsIndependent == [](PairIndependent) /\ [][PairRecordsKept]_vars

\* both invocations were suspended at the model call at once, on different
\* records, and both have returned, one after a failed call
C25_Witness ==
    /\ pc = "done" /\ other.pc = "done"
    /\ result.kind = "value" /\ other.result.kind = "value"
    /\ entries # other.entries
    /\ call.kind = "failed" /\ other.call.kind = "reply"
    /\ Len(stat.anomalies) > 0 /\ Len(other.stat.anomalies) > 0

(***************************************************************************)
(* The request sent to the model.                                          *)
(***************************************************************************)
\* the pairs of a table that a list of pairs leaves out
LeftOut(table, listed) ==
    {i \in 1..Len(table) : \A j \in 1..Len(listed) : listed[j] # table[i]}

\* listed holds the n pairs of table with the highest counts
HighestCounts(table, listed, n) ==
    /\ Len(listed) = Min(n, Len(table))
    /\ \A j \in 1..Len(listed) : \E i \in 1..Len(table) : table[i] = listed[j]
    /\ \A i \in LeftOut(table, listed) :
            \A j \in 1..Len(listed) : listed[j][2] >= table[i][2]

\* C26: the request previews the first 20 records of the sample only, lists
\* the 10 IPs of the IP table with the highest counts, and gives the count of
\* every status code and of every hour.
C26_PromptSummaries ==
    pc = "await" =>
        /\ prompt.entrySummaries =
                entrySummaries(SubSeq(sample, 1, Min(20, Len(sample))))
        /\ Len(prompt.entrySummaries) <= 20
        /\ HighestCounts(stat.patterns.ipFrequency, prompt.ipFrequency, 10)
        /\ prompt.statusCodes = stat.patterns.statusCodes
        /\ prompt.timeDistribution = stat.patterns.timePatterns

\* C26 without its ranking: the preview, and the tables as far as they hold
\* whatever the order of the clients
C26_PromptPreviewAndTables ==
    pc = "await" =>
        /\ prompt.entrySummaries =
                entrySummaries(SubSeq(sample, 1, Min(20, Len(sample))))
        /\ Len(prompt.entrySummaries) <= 20
        /\ Len(prompt.ipFrequency) = Min(10, Len(stat.patterns.ipFrequency))
        /\ \A j \in 1..Len(prompt.ipFrequency) :
                prompt.ipFrequency[j] = stat.patterns.ipFrequency[j]
        /\ prompt.statusCodes = stat.patterns.statusCodes
        /\ prompt.timeDistribution = stat.patterns.timePatterns

\* a request for a sample of more than 20 records from more than 10 clients
C26_ManyClients ==
    /\ pc = "await"
    /\ Len(sample) > 20
    /\ Len(stat.patterns.ipFrequency) > 10

(***************************************************************************)
(* The order of the steps of one invocation.                               *)
(***************************************************************************)
\* the steps of an invocation on non-empty input, in the order of the claim
StepOrder ==
    {<<"input", "statistics">>, <<"statistics", "await">>,
     <<"await", "reconciled">>, <<"reconciled", "done">>}

\* where the statistical pass and the sample selection stand when the call is
\* issued and afterwards
CallAfterStatisticsAndSample ==
    /\ aiCalls <= 1
    /\ aiCalls = 1 =>
            /\ pc \in {"await", "reconciled", "done"}
            /\ stat = performStatisticalAnalysis(entries)
            /\ sample = selectSampleEntries(entries, stat.anomalies)
    /\ (Len(entries) > 0 /\ pc \in {"await", "reconciled", "done"}) => aiCalls = 1
    /\ call # None => aiCalls = 1
    /\ ai # None => pc \in {"reconciled", "done"} /\ (Len(entries) > 0 => call # None)

\* a step moves the invocation to the next place of StepOrder, issues the
\* call only from the place after the statistical pass, and leaves the
\* statistical result as it is once it exists
StepInOrder ==
    /\ (Len(entries) > 0 /\ pc' # pc) => <<pc, pc'>> \in StepOrder
    /\ aiCalls' # aiCalls => pc = "statistics" /\ aiCalls' = aiCalls + 1
    /\ pc # "input" => stat' = stat /\ entries' = entries
    /\ pc \in {"await", "reconciled", "done"} => sample' = sample

\* C27: on non-empty input the steps run in the order statistical pass,
\* sample selection, model call, reply reconciliation; the call is issued at
\* most once and only after the statistical anomalies and the sample are
\* complete, and no later step changes the statistical anomaly list.
C27_StepsInOrder == [](CallAfterStatisticsAndSample) /\ [][StepInOrder]_vars

\* an invocation that ran all its steps, with statistical anomalies and a reply
C27_Witness ==
    /\ pc = "done"
    /\ aiCalls = 1
    /\ call # None /\ call.kind = "reply"
    /\ Len(stat.anomalies) > 0
    /\ Len(ai.anomalies) > Len(stat.anomalies)

(***************************************************************************)
(* The records of an accepted file.                                        *)
(***************************************************************************)
\* parseLogFile returned a result
ParseReturned == parsePc = "done" /\ parseResult.kind = "value"

CountedAndExtracted(line) == CountsAsEntry(line) /\ ~ExtractionFails(line)

ReplyWithoutList ==
    /\ pc \in {"reconciled", "done"}
    /\ call # None /\ call.kind = "reply"
    /\ ReplyParses
    /\ parseAIResponse(call.text).anomalies.kind # "value"

\* C29: when the call succeeds and the reply parses to a JSON object that has
\* no anomalies array (the member absent or not a list), performAIAnalysis
\* returns the fallback of a failed call: the statistical anomalies only, the
\* summary "AI analysis unavailable, using statistical analysis only", and
\* nothing of the reply's summary, confidence and recommendations.
C29_NoListFallsBack ==
    ReplyWithoutList =>
        /\ ai.anomalies = stat.anomalies
        /\ ai.summary = Text("AI analysis unavailable, using statistical analysis only")
        /\ ai.confidence = <<5, 10>>
        /\ ai.recommendations = <<"Enable AI analysis for enhanced threat detection">>

\* C29 for a member that is absent, null or a number
C29_NotIterableFallsBack ==
    (ReplyWithoutList /\ parseAIResponse(call.text).anomalies.kind # "string") =>
        ai = StatisticalOnly(stat)

(***************************************************************************)
(* The timeline of the analyze route.                                      *)
(***************************************************************************)
\* the rows marked anomalous
FlaggedRows(rows) == {i \in 1..Len(rows) : rows[i].is_anomaly}

\* the records of the invocation that fall into the hour and carry a flag
FlaggedInHour(hour) ==
    {i \in 1..Len(entries) :
        /\ entries[i].timestamp.k = "date"
        /\ HourOf(entries[i].timestamp) = hour
        /\ entries[i].is_anomaly}

\* the route's records carry no flag, its timeline has anomaly count 0 in
\* every bucket, and every timeline counts the records flagged on entry
TimelineCountsFlagsOnEntry ==
    /\ (route.via = "route" /\ pc # "input") =>
            \A i \in 1..Len(entries) : ~entries[i].is_anomaly
    /\ (route.via = "route" /\ Returned) =>
            \A b \in 1..Len(result.timeline) : result.timeline[b].anomalies = 0
    /\ Returned =>
            \A b \in 1..Len(result.timeline) :
                /\ result.timeline[b].anomalies =
                        Cardinality(FlaggedInHour(result.timeline[b].timestamp))
                /\ result.timeline[b].anomalies <= result.timeline[b].count

\* rows are marked only once the result, and with it the timeline, exists
MarkedAfterTimeline ==
    FlaggedRows(route'.rows) # FlaggedRows(route.rows) =>
        /\ route.via = "route"
        /\ Returned
        /\ FlaggedRows(route.rows) \subseteq FlaggedRows(route'.rows)

\* C30: in the analyze route the timeline is built before any log entry is
\* marked anomalous and from records that carry no anomaly flag, so the
\* timeline of POST /analyze has anomaly count 0 in every bucket whatever
\* anomalies the analysis found; a bucket's anomaly count is the number of its
\* records already flagged when generateTimeline runs and never exceeds the
\* bucket's count.
C30_RouteTimelineHasNoAnomalies ==
    [](TimelineCountsFlagsOnEntry) /\ [][MarkedAfterTimeline]_vars

\* the route analysed a file a second time, with rows that the first analysis
\* marked, and found a high-frequency IP again
C30_Witness ==
    /\ route.via = "route"
    /\ route.analyses = 1
    /\ Returned
    /\ FlaggedRows(route.rows) # {}
    /\ Len(result.timeline) > 0
    /\ \E i \in 1..Len(result.anomalies) : IsHighFrequency(result.anomalies[i])

\* the timeline of records that carry flags: a bucket with flagged records
\* and others
C30_WitnessFlagged ==
    /\ route.via = "direct"
    /\ Returned
    /\ \E b \in 1..Len(result.timeline) :
            /\ result.timeline[b].anomalies > 0
            /\ result.timeline[b].anomalies < result.timeline[b].count

=============================================================================
